---- MODULE Spec2Model ----
(***************************************************************************)
(* Kepler's in-kernel collector, src/bpf/kepler.bpf.h: the sched_switch    *)
(* handler do_kepler_sched_switch_trace, the counter snapshot layer        *)
(* (calc_delta, get_on_cpu_cycles/instr/cache_miss), the thread timestamp  *)
(* layer (get_on_cpu_elapsed_time_us over pid_time_map) and the per-process*)
(* table (processes, register_new_process_if_not_exist), with the soft-IRQ *)
(* and page-cache handlers of src/bpf/kepler.bpf.c.                        *)
(*                                                                         *)
(* One action is one whole handler invocation on one CPU.  The kernel is   *)
(* the environment: which thread runs on which CPU (cur), the free-running *)
(* hardware counters of each CPU (hwc), the clock values returned by       *)
(* bpf_ktime_get_ns() and the outcome of each perf read are its choices.   *)
(***************************************************************************)
EXTENDS Integers, FiniteSets, Sequences, TLC

\* ------------------------------------------------------------- bounds
\* CPUs of the modelled machine: 0 .. NumCpus-1.
NumCpus == 2
\* Threads 1 .. MaxTid, plus the idle thread (tid 0, one instance per CPU).
MaxTid == 2
\* bpf_ktime_get_ns() returns k * TickNs for k in 0 .. MaxTick.
MaxTick == 2
TickNs == 600
\* A hardware counter holds a value in 0 .. MaxCount.
MaxCount == 2
\* The loader sets SAMPLE_RATE to a value in 0 .. MaxSampleRate.
MaxSampleRate == 3
\* Handler invocations in one run.
MaxEvents == 4
\* u64 is modelled with WordBits bits (TLC's integers are 32 bits wide).
WordBits == 16
\* A softirq_entry carries a vector in 0 .. MaxVec.
MaxVec == 10
\* The eviction layer runs pid_time_map with room for MaxEntries entries.
MaxEntries == 2
\* The ring buffer has room for RingEvents whole records (3,640 in the
\* program), and the wake-up threshold is WakeBatch records (1000).
RingEvents == 3
WakeBatch == 2

\* ---------------------------------------------------- program constants
NUM_CPUS == 128
MAP_SIZE == 32768
BPF_ANY == 0
BPF_NOEXIST == 1

U64 == 2 ^ WordBits
U16 == 2 ^ 16
IRQ_MAX_LEN == 10
\* A null pointer (lookup miss); no u64 value.
NULL == 0 - 1

Cpus == 0 .. (NumCpus - 1)
IdleTid == 0
Tids == 0 .. MaxTid
Times == {k * TickNs : k \in 0 .. MaxTick}
HwValues == 0 .. MaxCount
Kinds == {"cycles", "instr", "miss"}

\* struct task_struct {pid, tgid}: threads 1 and 2 belong to process 1, every
\* other thread is its own process; the idle threads are process 0.
TgidOf(tid) == IF tid = 2 THEN 1 ELSE tid
Tgids == {TgidOf(t) : t \in Tids}
\* bpf_get_current_cgroup_id() / bpf_get_current_comm() of a running thread.
CgroupOf(tid) == 10 + TgidOf(tid)
CommOf(tid) == 20 + tid

VARIABLES
    SAMPLE_RATE,           \* .rodata.config, set by the loader
    HW,                    \* .rodata.config, set by the loader
    TEST,                  \* .rodata.config, set by the loader
    counter_sched_switch,  \* global sampling counter
    processes,             \* LRU hash: tgid -> process_metrics_t
    pid_time_map,          \* LRU hash: tid -> u64 ns
    cpu_cycles,            \* array: cpu -> u64 baseline
    cpu_instructions,      \* array: cpu -> u64 baseline
    cache_miss,            \* array: cpu -> u64 baseline
    cur,                   \* environment: tid running on each CPU
    hwc,                   \* environment: hardware counter values of each CPU
    clock,                 \* environment: the last value bpf_ktime_get_ns() gave
    ev,                    \* the last invocation: its inputs and its local buf
    hist,                  \* history: per tid, its last arrival, and how often
                           \* its duration was taken, and taken non-zero, since
    seen,                  \* history: the <<cpu, kind>> with a recorded sample
    nevents,               \* invocations so far
    taking,                \* per CPU, the take of a duration that is between
                           \* its lookup and its delete
    lru,                   \* kernel: the tids of pid_time_map, least recently
                           \* used first (kept by the eviction layer)
    rb,                    \* the ring buffer shared with user space
    running                \* per CPU, the handler that is between two of its
                           \* accesses to shared memory

vars == <<SAMPLE_RATE, HW, TEST, counter_sched_switch, processes, pid_time_map,
          cpu_cycles, cpu_instructions, cache_miss, cur, hwc, clock, ev, hist,
          seen, nevents, taking, lru, rb, running>>

\* ------------------------------------------------------------ bpf maps
EmptyMap == [k \in {} |-> 0]
Has(map, key) == key \in DOMAIN map
MapDelete(map, key) == [k \in (DOMAIN map) \ {key} |-> map[k]]
\* bpf_map_update_elem on an LRU hash map whose key set stays below
\* max_entries, where an update never evicts.
HashUpdate(map, key, val, flags) ==
    IF flags = BPF_NOEXIST /\ Has(map, key) THEN map
    ELSE [k \in (DOMAIN map) \cup {key} |-> IF k = key THEN val ELSE map[k]]

\* The max_entries the eviction layer runs pid_time_map with.
max_entries == IF MaxEntries < MAP_SIZE THEN MaxEntries ELSE MAP_SIZE

\* A recency order without key.
Without(order, key) == SelectSeq(order, LAMBDA k : k # key)

\* Mutant: a plain hash map, whose update fails when the map is full.
LruUpdate_full_fails(map, order, key, val, flags) ==
    IF flags = BPF_NOEXIST /\ Has(map, key) THEN [map |-> map, order |-> order]
    ELSE IF ~Has(map, key) /\ Len(order) >= max_entries
    THEN [map |-> map, order |-> order]
    ELSE [map |-> HashUpdate(map, key, val, flags),
          order |-> Append(Without(order, key), key)]

\* bpf_map_update_elem on an LRU hash map together with its recency order,
\* least recently used first: a new key that finds the map full takes the
\* place of the least recently used one.
LruUpdate(map, order, key, val, flags) ==
    IF flags = BPF_NOEXIST /\ Has(map, key) THEN [map |-> map, order |-> order]
    ELSE IF ~Has(map, key) /\ Len(order) >= max_entries
    THEN [map |-> HashUpdate(MapDelete(map, Head(order)), key, val, flags),
          order |-> Append(Tail(order), key)]
    ELSE [map |-> HashUpdate(map, key, val, flags),
          order |-> Append(Without(order, key), key)]
\* bpf_map_lookup_elem on an array map: NULL only for an index out of range.
ArrayLookup(arr, idx) == IF idx \in DOMAIN arr THEN arr[idx] ELSE NULL
ArrayUpdate(arr, idx, val) ==
    IF idx \in DOMAIN arr THEN [arr EXCEPT ![idx] = val] ELSE arr
ArrayIndex == {c \in Cpus : c < NUM_CPUS}

\* ------------------------------------------------- process_metrics_t
ZeroVec == [v \in 0 .. 9 |-> 0]
\* process_metrics_t buf = {}
ZeroMetrics ==
    [cgroup_id |-> 0, pid |-> 0, process_run_time |-> 0, cpu_cycles |-> 0,
     cpu_instr |-> 0, cache_miss |-> 0, page_cache_hit |-> 0,
     vec_nr |-> ZeroVec, comm |-> 0]

\* --------------------------------------------- counter snapshot layer
\* prev_val is NULL or the value prev_val points to.
\* Mutant: the subtraction without the val > *prev_val test (modulo 2^w).
calc_delta_unguarded(prev_val, val) ==
    IF prev_val # NULL THEN (val - prev_val) % U64 ELSE 0

\* Mutant: a missing baseline counts as a baseline of 0.
calc_delta_from_zero(prev_val, val) ==
    IF prev_val = NULL THEN val
    ELSE IF val > prev_val THEN val - prev_val ELSE 0

calc_delta(prev_val, val) ==
    IF prev_val # NULL /\ val > prev_val THEN val - prev_val ELSE 0

\* bpf_perf_event_read_value(reader, cpu_id, &c): an error, or the counter
\* value hw of the CPU.
PerfRead(failed, hw) ==
    IF failed THEN [error |-> TRUE, counter |-> 0]
    ELSE [error |-> FALSE, counter |-> hw]

\* Mutant: the baseline is stored in slot 0 whatever the CPU.
get_on_cpu_cycles_slot0(arr, cpu_id, rd) ==
    IF rd.error THEN [delta |-> 0, arr |-> arr]
    ELSE [delta |-> calc_delta(ArrayLookup(arr, cpu_id), rd.counter),
          arr |-> ArrayUpdate(arr, 0, rd.counter)]

\* Each get_on_cpu_* returns its delta and the baseline array it leaves.
get_on_cpu_cycles(arr, cpu_id, rd) ==
    IF rd.error THEN [delta |-> 0, arr |-> arr]
    ELSE [delta |-> calc_delta(ArrayLookup(arr, cpu_id), rd.counter),
          arr |-> ArrayUpdate(arr, cpu_id, rd.counter)]

\* Mutant: a failed read stores the (zeroed) value structure as baseline.
get_on_cpu_instr_store_on_error(arr, cpu_id, rd) ==
    IF rd.error THEN [delta |-> 0, arr |-> ArrayUpdate(arr, cpu_id, rd.counter)]
    ELSE [delta |-> calc_delta(ArrayLookup(arr, cpu_id), rd.counter),
          arr |-> ArrayUpdate(arr, cpu_id, rd.counter)]

get_on_cpu_instr(arr, cpu_id, rd) ==
    IF rd.error THEN [delta |-> 0, arr |-> arr]
    ELSE [delta |-> calc_delta(ArrayLookup(arr, cpu_id), rd.counter),
          arr |-> ArrayUpdate(arr, cpu_id, rd.counter)]

get_on_cpu_cache_miss(arr, cpu_id, rd) ==
    IF rd.error THEN [delta |-> 0, arr |-> arr]
    ELSE [delta |-> calc_delta(ArrayLookup(arr, cpu_id), rd.counter),
          arr |-> ArrayUpdate(arr, cpu_id, rd.counter)]

\* --------------------------------------------- thread timestamp layer
\* Mutant: the take forgets bpf_map_delete_elem.
take_without_delete(ptm, prev_pid, curr_ts) ==
    IF Has(ptm, prev_pid)
    THEN [cpu_time |-> calc_delta(ptm[prev_pid], curr_ts) \div 1000,
          map |-> ptm]
    ELSE [cpu_time |-> 0, map |-> ptm]

\* Returns cpu_time and the pid_time_map it leaves.
\* Mutant: the take subtracts without comparing the two timestamps.
take_wrapping(ptm, prev_pid, curr_ts) ==
    IF Has(ptm, prev_pid)
    THEN [cpu_time |-> ((curr_ts - ptm[prev_pid]) % U64) \div 1000,
          map |-> MapDelete(ptm, prev_pid)]
    ELSE [cpu_time |-> 0, map |-> ptm]

\* Mutant: the take deletes the entry only when the clock has advanced.
take_delete_if_advanced(ptm, prev_pid, curr_ts) ==
    IF Has(ptm, prev_pid)
    THEN [cpu_time |-> calc_delta(ptm[prev_pid], curr_ts) \div 1000,
          map |-> IF curr_ts > ptm[prev_pid] THEN MapDelete(ptm, prev_pid)
                  ELSE ptm]
    ELSE [cpu_time |-> 0, map |-> ptm]

get_on_cpu_elapsed_time_us(ptm, prev_pid, curr_ts) ==
    IF Has(ptm, prev_pid)
    THEN [cpu_time |-> calc_delta(ptm[prev_pid], curr_ts) \div 1000,
          map |-> MapDelete(ptm, prev_pid)]
    ELSE [cpu_time |-> 0, map |-> ptm]

\* ------------------------------------------------------ process table
\* Mutant: the entry is written without the lookup, with BPF_ANY.
register_new_process_always(procs, tgid, current, test) ==
    HashUpdate(procs, tgid,
               [ZeroMetrics EXCEPT !.pid = tgid,
                                   !.cgroup_id = CgroupOf(current),
                                   !.comm = IF test = 0 THEN CommOf(current)
                                            ELSE 0],
               BPF_ANY)

\* The new entry takes the cgroup id and comm of the current task, which at
\* sched_switch is the departing thread.
register_new_process_if_not_exist(procs, tgid, current, test) ==
    IF Has(procs, tgid) THEN procs
    ELSE HashUpdate(procs, tgid,
                    [ZeroMetrics EXCEPT !.pid = tgid,
                                        !.cgroup_id = CgroupOf(current),
                                        !.comm = IF test = 0 THEN CommOf(current)
                                                 ELSE 0],
                    BPF_NOEXIST)

\* Mutant: the counters are read whatever the HW flag says.
collect_ignoring_hw(hw, prev_pid, curr_ts, cpu_id, reads) ==
    LET cy == get_on_cpu_cycles(cpu_cycles, cpu_id, reads.cycles)
        ins == get_on_cpu_instr(cpu_instructions, cpu_id, reads.instr)
        cm == get_on_cpu_cache_miss(cache_miss, cpu_id, reads.miss)
        el == get_on_cpu_elapsed_time_us(pid_time_map, prev_pid, curr_ts)
    IN [buf |-> [ZeroMetrics EXCEPT !.cpu_cycles = cy.delta,
                                    !.cpu_instr = ins.delta,
                                    !.cache_miss = cm.delta,
                                    !.process_run_time = el.cpu_time],
        cpu_cycles |-> cy.arr, cpu_instructions |-> ins.arr,
        cache_miss |-> cm.arr, pid_time_map |-> el.map]

\* Fills buf and leaves the three baseline arrays and pid_time_map.
collect_metrics_and_reset_counters(hw, prev_pid, curr_ts, cpu_id, reads) ==
    LET cy == IF hw # 0 THEN get_on_cpu_cycles(cpu_cycles, cpu_id, reads.cycles)
              ELSE [delta |-> 0, arr |-> cpu_cycles]
        ins == IF hw # 0
               THEN get_on_cpu_instr(cpu_instructions, cpu_id, reads.instr)
               ELSE [delta |-> 0, arr |-> cpu_instructions]
        cm == IF hw # 0
              THEN get_on_cpu_cache_miss(cache_miss, cpu_id, reads.miss)
              ELSE [delta |-> 0, arr |-> cache_miss]
        el == get_on_cpu_elapsed_time_us(pid_time_map, prev_pid, curr_ts)
    IN [buf |-> [ZeroMetrics EXCEPT !.cpu_cycles = cy.delta,
                                    !.cpu_instr = ins.delta,
                                    !.cache_miss = cm.delta,
                                    !.process_run_time = el.cpu_time],
        cpu_cycles |-> cy.arr, cpu_instructions |-> ins.arr,
        cache_miss |-> cm.arr, pid_time_map |-> el.map]

\* Mutant: the cycles and instructions deltas land in each other's field.
Accumulate_swapped(m, buf) ==
    [m EXCEPT !.process_run_time = (@ + buf.process_run_time) % U64,
              !.cpu_cycles = (@ + buf.cpu_instr) % U64,
              !.cpu_instr = (@ + buf.cpu_cycles) % U64,
              !.cache_miss = (@ + buf.cache_miss) % U64]

\* prev_tgid_metrics->x += buf.x, for the four accumulated fields.
Accumulate(m, buf) ==
    [m EXCEPT !.process_run_time = (@ + buf.process_run_time) % U64,
              !.cpu_cycles = (@ + buf.cpu_cycles) % U64,
              !.cpu_instr = (@ + buf.cpu_instr) % U64,
              !.cache_miss = (@ + buf.cache_miss) % U64]

\* Mutant: the accumulation without the process_run_time > 0 test.
accumulate_always(procs, prev_tgid, buf) ==
    IF Has(procs, prev_tgid)
    THEN [procs EXCEPT ![prev_tgid] = Accumulate(@, buf)]
    ELSE procs

\* Mutant: a departing process without an entry gets one holding buf.
accumulate_or_init(procs, prev_tgid, buf) ==
    IF buf.process_run_time > 0
    THEN IF Has(procs, prev_tgid)
         THEN [procs EXCEPT ![prev_tgid] = Accumulate(@, buf)]
         ELSE HashUpdate(procs, prev_tgid,
                         Accumulate([ZeroMetrics EXCEPT !.pid = prev_tgid], buf),
                         BPF_NOEXIST)
    ELSE procs

\* if (buf.process_run_time > 0) { lookup prev_tgid; if found, accumulate }
accumulate_prev_metrics(procs, prev_tgid, buf) ==
    IF buf.process_run_time > 0 /\ Has(procs, prev_tgid)
    THEN [procs EXCEPT ![prev_tgid] = Accumulate(@, buf)]
    ELSE procs

\* Which branch of the sampling test a switch takes.
SwitchPath ==
    IF SAMPLE_RATE > 0 /\ counter_sched_switch > 0
    THEN IF counter_sched_switch = 1 THEN "collect" ELSE "skip"
    ELSE "sampled"

\* ev when nothing has run yet.  cpu_time is the duration a handler put in
\* buf.process_run_time (or a take returned); for a counter read, val is the
\* value read and delta what the read returned; prev_val is what the lookup
\* of a take or of a read found (NULL: nothing); fails is the set of perf
\* reads that failed in a switch, since the number of switches that were not
\* sampled since the last sampled one.
NoEvent ==
    [op |-> "none", cpu |-> 0, prev_pid |-> 0, next_pid |-> 0, ts |-> 0,
     path |-> "none", kind |-> "none", failed |-> FALSE, cpu_time |-> 0,
     val |-> 0, prev_val |-> NULL, delta |-> 0, fails |-> {}, since |-> 0,
     prev_tgid |-> NULL, next_tgid |-> NULL]

\* running[cpu] when no handler is under way on cpu: pc is the handler's
\* position, tgid and buf its arguments, field the field it works on and tmp
\* the value it holds in a register.
NoRun ==
    [pc |-> "idle", tgid |-> 0, buf |-> ZeroMetrics, field |-> 0, tmp |-> 0]

\* taking[cpu] when no take is under way on cpu.
NoTake == [pid |-> NULL, found |-> FALSE, cpu_time |-> 0]

\* hist after a handler that took (or not) the duration d of tid.
Departed(h, took, d) ==
    IF took
    THEN [h EXCEPT !.takes = IF @ < 2 THEN @ + 1 ELSE @,
                   !.nonzero = IF d > 0 /\ @ < 2 THEN @ + 1 ELSE @]
    ELSE h

\* Mutant: the counter is reset to one less than SAMPLE_RATE.
sample_counter_short(sample_rate, counter) ==
    IF sample_rate > 0
    THEN IF counter > 0 THEN counter - 1 ELSE sample_rate - 1
    ELSE counter

\* counter_sched_switch after a switch: counted down while it is > 0, set to
\* SAMPLE_RATE when it is 0, untouched when SAMPLE_RATE is 0.
sample_counter(sample_rate, counter) ==
    IF sample_rate > 0
    THEN IF counter > 0 THEN counter - 1 ELSE sample_rate
    ELSE counter

\* ------------------------------------------------ sched_switch handler
\* do_kepler_sched_switch_trace on cpu_id: curr_ts is the clock read on entry,
\* ts2 the second clock read, reads the outcome of the three perf reads, and
\* current the task the handler runs in (at the tracepoint, the departing
\* thread).  Returns the state it leaves and its local buf.
do_kepler_sched_switch_trace(prev_pid, next_pid, prev_tgid, next_tgid, current, cpu_id, curr_ts, ts2, reads) ==
    LET col == collect_metrics_and_reset_counters(HW, prev_pid, curr_ts,
                                                  cpu_id, reads)
        unchanged == [cpu_cycles |-> cpu_cycles,
                      cpu_instructions |-> cpu_instructions,
                      cache_miss |-> cache_miss]
        arrays == [cpu_cycles |-> col.cpu_cycles,
                   cpu_instructions |-> col.cpu_instructions,
                   cache_miss |-> col.cache_miss]
    IN IF SAMPLE_RATE > 0 /\ counter_sched_switch > 0
       THEN IF counter_sched_switch = 1
            THEN [counter |-> sample_counter(SAMPLE_RATE, counter_sched_switch),
                  path |-> "collect",
                  arrays |-> arrays,
                  pid_time_map |-> HashUpdate(col.pid_time_map, next_pid,
                                              curr_ts, BPF_ANY),
                  processes |-> register_new_process_if_not_exist(
                                    processes, next_tgid, current, TEST),
                  buf |-> col.buf]
            ELSE [counter |-> sample_counter(SAMPLE_RATE, counter_sched_switch),
                  path |-> "skip",
                  arrays |-> unchanged,
                  pid_time_map |-> pid_time_map,
                  processes |-> processes,
                  buf |-> ZeroMetrics]
       ELSE LET acc == accumulate_prev_metrics(processes, prev_tgid, col.buf)
            IN [counter |-> sample_counter(SAMPLE_RATE, counter_sched_switch),
                path |-> "sampled",
                arrays |-> arrays,
                pid_time_map |-> HashUpdate(col.pid_time_map, next_pid, ts2,
                                            BPF_ANY),
                processes |-> register_new_process_if_not_exist(
                                  acc, prev_tgid, current, TEST),
                buf |-> col.buf]

\* The scheduler may put next on cpu: another thread than the one running
\* there, and one that runs nowhere else (each CPU has its own idle thread,
\* all of them tid 0).
CanSwitchTo(cpu, next) ==
    /\ next # cur[cpu]
    /\ next = IdleTid \/ \A c \in Cpus : cur[c] # next

\* tracepoint sched/sched_switch on cpu: the thread running there departs and
\* next arrives.  ts and ts2 are the two clock reads (the clock never runs
\* backwards), hv the values the CPU's counters have reached, fail the perf
\* reads that return an error.
SchedSwitch(cpu, next, ts, ts2, hv, fail) ==
    /\ CanSwitchTo(cpu, next)
    /\ ts >= clock
    /\ ts2 >= ts
    /\ SwitchPath # "sampled" => ts2 = ts
    /\ LET prev == cur[cpu]
           reads == [k \in Kinds |-> PerfRead(k \in fail, hv[k])]
           r == do_kepler_sched_switch_trace(prev, next, TgidOf(prev),
                                             TgidOf(next), prev, cpu, ts, ts2,
                                             reads)
       IN /\ counter_sched_switch' = r.counter
          /\ processes' = r.processes
          /\ pid_time_map' = r.pid_time_map
          /\ cpu_cycles' = r.arrays.cpu_cycles
          /\ cpu_instructions' = r.arrays.cpu_instructions
          /\ cache_miss' = r.arrays.cache_miss
          /\ ev' = [NoEvent EXCEPT !.op = "switch", !.cpu = cpu,
                                    !.prev_pid = prev, !.next_pid = next,
                                    !.ts = ts, !.path = r.path,
                                    !.cpu_time = r.buf.process_run_time,
                                    !.fails = fail,
                                    !.since = IF r.path = "sampled" THEN 0
                                              ELSE ev.since + 1]
          /\ seen' = IF r.path = "skip" \/ HW = 0 THEN seen
                     ELSE seen \cup {<<cpu, k>> : k \in Kinds \ fail}
          /\ hist' = [hist EXCEPT
                         ![next] = [arrive |-> ts2, takes |-> 0, nonzero |-> 0],
                         ![prev] = Departed(@, r.path # "skip",
                                            r.buf.process_run_time)]
    /\ cur' = [cur EXCEPT ![cpu] = next]
    /\ hwc' = [hwc EXCEPT ![cpu] = hv]
    /\ clock' = ts2
    /\ nevents' = nevents + 1
    /\ UNCHANGED <<SAMPLE_RATE, HW, TEST, taking, lru, rb, running>>

\* --------------------------------------------------------- ring buffer
\* sizeof(event): the fixed record layout.
sizeof_event == 72
\* The four event variants.
Variants == {"SCHED_SWITCH", "IRQ", "PAGE_CACHE_HIT", "FREE"}
\* The buffer's bytes: 256 KiB in the program, which is a whole number of
\* records and a remainder that no record fits.
ring_size == RingEvents * sizeof_event + ((256 * 1024) % sizeof_event)
\* wake-up threshold = 1000 x sizeof(event)
wakeup_data_size == WakeBatch * sizeof_event

\* rb.emitting[cpu] when the probe on cpu is not emitting.
NoEmit == [variant |-> "", seq |-> 0]

\* rb.slots are the records between the consumer's and the producers'
\* positions, oldest first; a busy record is reserved and not yet submitted.
\* rb.emitting[cpu] is the event the probe on cpu is emitting, rb.seq[cpu]
\* counts the emits of cpu, rb.consumed is what user space has read, in the
\* order it read it, and rb.dropped the emits that found no room.
EmptyRing ==
    [slots |-> <<>>, emitting |-> [c \in Cpus |-> NoEmit],
     seq |-> [c \in Cpus |-> 0], consumed |-> <<>>, dropped |-> {}]

\* ring_buffer_available_bytes(): the bytes not yet consumed, reserved ones
\* included.
ring_buffer_available_bytes(r) == Len(r.slots) * sizeof_event

\* Mutant: a reservation that finds no room takes the newest record's place.
ring_buffer_reserve_overwriting(r, cpu, variant) ==
    LET n == r.seq[cpu] + 1
        slot == [cpu |-> cpu, seq |-> n, busy |-> TRUE, variant |-> "",
                 cpu_id |-> NULL, wake |-> "", avail |-> NULL]
    IN IF ring_buffer_available_bytes(r) + sizeof_event > ring_size
       THEN [r EXCEPT !.seq[cpu] = n, !.slots[Len(r.slots)] = slot,
                      !.emitting[cpu] = [variant |-> variant, seq |-> n]]
       ELSE [r EXCEPT !.seq[cpu] = n, !.slots = Append(@, slot),
                      !.emitting[cpu] = [variant |-> variant, seq |-> n]]

\* emit, first half: reserve sizeof(event); when the buffer has no room the
\* event is dropped and emit returns.
ring_buffer_reserve(r, cpu, variant) ==
    LET n == r.seq[cpu] + 1
        slot == [cpu |-> cpu, seq |-> n, busy |-> TRUE, variant |-> "",
                 cpu_id |-> NULL, wake |-> "", avail |-> NULL]
    IN IF ring_buffer_available_bytes(r) + sizeof_event > ring_size
       THEN [r EXCEPT !.seq[cpu] = n, !.dropped = @ \cup {<<cpu, n>>}]
       ELSE [r EXCEPT !.seq[cpu] = n, !.slots = Append(@, slot),
                      !.emitting[cpu] = [variant |-> variant, seq |-> n]]

\* Mutant: the wake-up is forced only above the threshold.
wake_flag_above(available) ==
    IF available > wakeup_data_size THEN "FORCE_WAKEUP" ELSE "NO_WAKEUP"

\* wake = (available >= 1000 * sizeof(event)) ? FORCE_WAKEUP : NO_WAKEUP
wake_flag(available) ==
    IF available >= wakeup_data_size THEN "FORCE_WAKEUP" ELSE "NO_WAKEUP"

\* emit, second half: fill the reserved slot and submit it with the flag.
ring_buffer_submit(r, cpu) ==
    LET available == ring_buffer_available_bytes(r)
        fill(sl) == IF sl.cpu = cpu /\ sl.busy
                    THEN [sl EXCEPT !.busy = FALSE,
                                    !.variant = r.emitting[cpu].variant,
                                    !.cpu_id = cpu,
                                    !.wake = wake_flag(available),
                                    !.avail = available]
                    ELSE sl
    IN [r EXCEPT !.slots = [i \in DOMAIN r.slots |-> fill(r.slots[i])],
                 !.emitting[cpu] = NoEmit]

\* The consumer has a record to read: the oldest one, once it is submitted.
ring_buffer_readable(r) == r.slots # <<>> /\ ~Head(r.slots).busy

\* Mutant: the consumer reads the newest submitted record.
ring_buffer_consume_newest(r) ==
    LET n == Len(r.slots)
    IN IF ring_buffer_readable(r) /\ ~r.slots[n].busy
       THEN [r EXCEPT !.slots = SubSeq(@, 1, n - 1),
                      !.consumed = Append(@, r.slots[n])]
       ELSE r

\* The single consumer reads the oldest record and frees its bytes.
ring_buffer_consume(r) ==
    IF ring_buffer_readable(r)
    THEN [r EXCEPT !.slots = Tail(@), !.consumed = Append(@, Head(r.slots))]
    ELSE r

\* ------------------------------------------------------- specification
\* The counter values a CPU presents at a switch: every counter takes every
\* value, and between any two samples the counters move in different
\* directions.
HwSamples ==
    {[cycles |-> w, instr |-> (2 * w) % (MaxCount + 1), miss |-> MaxCount - w] :
        w \in HwValues}

\* The state after the programs are loaded: empty hash maps, zeroed arrays.
InitMaps ==
    /\ counter_sched_switch = 0
    /\ processes = EmptyMap
    /\ pid_time_map = EmptyMap
    /\ cpu_cycles = [c \in ArrayIndex |-> 0]
    /\ cpu_instructions = [c \in ArrayIndex |-> 0]
    /\ cache_miss = [c \in ArrayIndex |-> 0]

InitEnv ==
    /\ cur = [c \in Cpus |-> IdleTid]
    /\ hwc = [c \in Cpus |-> [k \in Kinds |-> NULL]]
    /\ clock = 0
    /\ ev = NoEvent
    /\ hist = [t \in Tids |-> [arrive |-> NULL, takes |-> 0, nonzero |-> 0]]
    /\ seen = {}
    /\ nevents = 0
    /\ taking = [c \in Cpus |-> NoTake]
    /\ lru = <<>>
    /\ rb = EmptyRing
    /\ running = [c \in Cpus |-> NoRun]

Init ==
    /\ SAMPLE_RATE \in 0 .. MaxSampleRate
    /\ HW = 1
    /\ TEST = 0
    /\ InitMaps
    /\ InitEnv

\* Context switches on every CPU, with successful perf reads.
Next ==
    /\ nevents < MaxEvents
    /\ \E cpu \in Cpus, next \in Tids, ts \in Times, ts2 \in Times,
          hv \in HwSamples :
           SchedSwitch(cpu, next, ts, ts2, hv, {})

Spec == Init /\ [][Next]_vars

\* The same context switches with the hardware events disabled.
InitNoHW ==
    /\ SAMPLE_RATE \in 0 .. MaxSampleRate
    /\ HW = 0
    /\ TEST = 0
    /\ InitMaps
    /\ InitEnv

SpecNoHW == InitNoHW /\ [][Next]_vars

\* ------------------------------------------------- the layers on their own
\* bpf_map_update_elem(&pid_time_map, &next_pid, &curr_ts, BPF_ANY)
TimestampMark(tid, ts) ==
    /\ pid_time_map' = HashUpdate(pid_time_map, tid, ts, BPF_ANY)
    /\ ev' = [NoEvent EXCEPT !.op = "mark", !.next_pid = tid, !.ts = ts]
    /\ UNCHANGED <<SAMPLE_RATE, HW, TEST, counter_sched_switch, processes,
                   cpu_cycles, cpu_instructions, cache_miss, cur, hwc, clock,
                   hist, seen, nevents, taking, lru, rb, running>>

\* get_on_cpu_elapsed_time_us(tid, now)
TimestampTake(tid, now) ==
    /\ LET r == get_on_cpu_elapsed_time_us(pid_time_map, tid, now)
       IN /\ pid_time_map' = r.map
          /\ ev' = [NoEvent EXCEPT !.op = "take", !.prev_pid = tid,
                                    !.ts = now, !.cpu_time = r.cpu_time,
                                    !.prev_val = IF Has(pid_time_map, tid)
                                                 THEN pid_time_map[tid]
                                                 ELSE NULL]
    /\ UNCHANGED <<SAMPLE_RATE, HW, TEST, counter_sched_switch, processes,
                   cpu_cycles, cpu_instructions, cache_miss, cur, hwc, clock,
                   hist, seen, nevents, taking, lru, rb, running>>

\* The calls of the thread timestamp layer, in any order and at any clock
\* value.
NextTimestamps ==
    \E tid \in Tids, ts \in Times :
        \/ TimestampMark(tid, ts)
        \/ TimestampTake(tid, ts)

\* The layer is exercised without the sampling knob.
InitTimestamps == Init /\ SAMPLE_RATE = 0

SpecTimestamps == InitTimestamps /\ [][NextTimestamps]_vars

\* The timestamp layer on a map that is small enough to fill up.
\* bpf_map_update_elem(&pid_time_map, &next_pid, &curr_ts, BPF_ANY)
EvictionMark(tid, ts) ==
    /\ LET r == LruUpdate(pid_time_map, lru, tid, ts, BPF_ANY)
       IN /\ pid_time_map' = r.map
          /\ lru' = r.order
    /\ hist' = [hist EXCEPT ![tid] = [arrive |-> ts, takes |-> 0, nonzero |-> 0]]
    /\ ev' = [NoEvent EXCEPT !.op = "mark", !.next_pid = tid, !.ts = ts]
    /\ nevents' = nevents + 1
    /\ UNCHANGED <<SAMPLE_RATE, HW, TEST, counter_sched_switch, processes,
                   cpu_cycles, cpu_instructions, cache_miss, cur, hwc, clock,
                   seen, taking, rb, running>>

\* get_on_cpu_elapsed_time_us(tid, now)
EvictionTake(tid, now) ==
    /\ LET r == get_on_cpu_elapsed_time_us(pid_time_map, tid, now)
       IN /\ pid_time_map' = r.map
          /\ lru' = Without(lru, tid)
          /\ hist' = [hist EXCEPT ![tid] = Departed(@, TRUE, r.cpu_time)]
          /\ ev' = [NoEvent EXCEPT !.op = "take", !.prev_pid = tid,
                                    !.ts = now, !.cpu_time = r.cpu_time,
                                    !.prev_val = IF Has(pid_time_map, tid)
                                                 THEN pid_time_map[tid]
                                                 ELSE NULL]
    /\ nevents' = nevents + 1
    /\ UNCHANGED <<SAMPLE_RATE, HW, TEST, counter_sched_switch, processes,
                   cpu_cycles, cpu_instructions, cache_miss, cur, hwc, clock,
                   seen, taking, rb, running>>

InitEviction == Init /\ SAMPLE_RATE = 0

NextEviction ==
    /\ nevents < MaxEvents + 1
    /\ \E tid \in Tids, ts \in Times :
           \/ EvictionMark(tid, ts)
           \/ EvictionTake(tid, ts)

SpecEviction == InitEviction /\ [][NextEviction]_vars

\* The baseline slot of a counter on a CPU.
Baseline(kind, cpu) ==
    CASE kind = "cycles" -> ArrayLookup(cpu_cycles, cpu)
      [] kind = "instr" -> ArrayLookup(cpu_instructions, cpu)
      [] kind = "miss" -> ArrayLookup(cache_miss, cpu)

\* get_on_cpu_cycles / _instr / _cache_miss on cpu: the counter holds val, and
\* the perf read fails or not.
CounterRead(kind, cpu, val, failed) ==
    /\ LET rd == PerfRead(failed, val)
           r == CASE kind = "cycles" -> get_on_cpu_cycles(cpu_cycles, cpu, rd)
                  [] kind = "instr" ->
                         get_on_cpu_instr(cpu_instructions, cpu, rd)
                  [] kind = "miss" -> get_on_cpu_cache_miss(cache_miss, cpu, rd)
       IN /\ cpu_cycles' = IF kind = "cycles" THEN r.arr ELSE cpu_cycles
          /\ cpu_instructions' = IF kind = "instr" THEN r.arr
                                 ELSE cpu_instructions
          /\ cache_miss' = IF kind = "miss" THEN r.arr ELSE cache_miss
          /\ ev' = [NoEvent EXCEPT !.op = "read", !.cpu = cpu, !.kind = kind,
                                    !.failed = failed, !.val = val,
                                    !.prev_val = Baseline(kind, cpu),
                                    !.delta = r.delta]
    /\ seen' = IF failed THEN seen ELSE seen \cup {<<cpu, kind>>}
    /\ nevents' = nevents + 1
    /\ UNCHANGED <<SAMPLE_RATE, HW, TEST, counter_sched_switch, processes,
                   pid_time_map, cur, hwc, clock, hist, taking, lru, rb, running>>

\* The reads of the counter snapshot layer, in any order.
NextCounters ==
    /\ nevents < MaxEvents
    /\ \E kind \in Kinds, cpu \in Cpus, val \in HwValues, failed \in BOOLEAN :
           CounterRead(kind, cpu, val, failed)

InitCounters == Init /\ SAMPLE_RATE = 0

SpecCounters == InitCounters /\ [][NextCounters]_vars

\* Context switches with sampling enabled (SAMPLE_RATE >= 2), one more of
\* them, each at a single clock value.
InitSampling == Init /\ SAMPLE_RATE >= 2

NextSampling ==
    /\ nevents < MaxEvents + 1
    /\ \E cpu \in Cpus, next \in Tids, ts \in Times, hv \in HwSamples :
           SchedSwitch(cpu, next, ts, ts, hv, {})

SpecSampling == InitSampling /\ [][NextSampling]_vars

\* Context switches on one CPU in which any of the three perf reads may fail,
\* each at a single clock value.
NextFailures ==
    /\ nevents < MaxEvents - 1
    /\ \E next \in Tids, ts \in Times, hv \in HwSamples, fail \in SUBSET Kinds :
           SchedSwitch(0, next, ts, ts, hv, fail)

\* No switch is skipped, so that every switch reads the counters.
InitFailures == Init /\ SAMPLE_RATE <= 1

SpecFailures == InitFailures /\ [][NextFailures]_vars

\* ------------------------------------------- soft-IRQ and page-cache probes
\* Mutant: the handler counts only the vectors 2, 3 and 4.
kepler_irq_trace_filtered(procs, curr_tgid, vec) ==
    IF Has(procs, curr_tgid) /\ vec \in {2, 3, 4}
    THEN [procs EXCEPT ![curr_tgid].vec_nr[vec] = (@ + 1) % U16]
    ELSE procs

\* Mutant: the handler counts the vector in the slot before its own.
kepler_irq_trace_shifted(procs, curr_tgid, vec) ==
    IF Has(procs, curr_tgid) /\ vec < IRQ_MAX_LEN
    THEN [procs EXCEPT ![curr_tgid].vec_nr[IF vec > 0 THEN vec - 1 ELSE vec] =
                           (@ + 1) % U16]
    ELSE procs

\* Mutant: no vec < 10 test; a vector beyond the array lands in the bytes
\* behind it, the comm field.
kepler_irq_trace_unchecked(procs, curr_tgid, vec) ==
    IF Has(procs, curr_tgid)
    THEN IF vec < IRQ_MAX_LEN
         THEN [procs EXCEPT ![curr_tgid].vec_nr[vec] = (@ + 1) % U16]
         ELSE [procs EXCEPT ![curr_tgid].comm = (@ + 1) % U16]
    ELSE procs

\* Mutant: the count stops at the largest u16 instead of wrapping.
kepler_irq_trace_saturating(procs, curr_tgid, vec) ==
    IF Has(procs, curr_tgid) /\ vec < IRQ_MAX_LEN
    THEN [procs EXCEPT ![curr_tgid].vec_nr[vec] =
                           IF @ = U16 - 1 THEN @ ELSE @ + 1]
    ELSE procs

\* if (process_metrics != 0 && vec < 10) process_metrics->vec_nr[vec] += 1;
kepler_irq_trace(procs, curr_tgid, vec) ==
    IF Has(procs, curr_tgid) /\ vec < IRQ_MAX_LEN
    THEN [procs EXCEPT ![curr_tgid].vec_nr[vec] = (@ + 1) % U16]
    ELSE procs

\* Mutant: a hit of a process without an entry creates the entry.
do_page_cache_hit_increment_or_init(procs, curr_pid) ==
    IF Has(procs, curr_pid)
    THEN [procs EXCEPT ![curr_pid].page_cache_hit = (@ + 1) % U64]
    ELSE HashUpdate(procs, curr_pid,
                    [ZeroMetrics EXCEPT !.pid = curr_pid, !.page_cache_hit = 1],
                    BPF_NOEXIST)

\* if (process_metrics) process_metrics->page_cache_hit++;
do_page_cache_hit_increment(procs, curr_pid) ==
    IF Has(procs, curr_pid)
    THEN [procs EXCEPT ![curr_pid].page_cache_hit = (@ + 1) % U64]
    ELSE procs

\* A probe that is not the sched_switch handler leaves all but processes.
ProbeFrame ==
    /\ nevents' = nevents + 1
    /\ UNCHANGED <<SAMPLE_RATE, HW, TEST, counter_sched_switch, pid_time_map,
                   cpu_cycles, cpu_instructions, cache_miss, cur, hwc, clock,
                   hist, seen, taking, lru, rb, running>>

\* tracepoint softirq_entry with vector vec, raised while cur[cpu] runs.
SoftirqEntry(cpu, vec) ==
    /\ processes' = kepler_irq_trace(processes, TgidOf(cur[cpu]), vec)
    /\ ev' = [NoEvent EXCEPT !.op = "irq", !.cpu = cpu, !.prev_pid = cur[cpu],
                              !.val = vec]
    /\ ProbeFrame

\* fexit/mark_page_accessed (kepler_read_page_trace) while cur[cpu] runs.
ReadPage(cpu) ==
    /\ processes' = do_page_cache_hit_increment(processes, TgidOf(cur[cpu]))
    /\ ev' = [NoEvent EXCEPT !.op = "read_page", !.cpu = cpu,
                              !.prev_pid = cur[cpu]]
    /\ ProbeFrame

\* tp/writeback_dirty_folio (kepler_write_page_trace) while cur[cpu] runs.
WritePage(cpu) ==
    /\ processes' = do_page_cache_hit_increment(processes, TgidOf(cur[cpu]))
    /\ ev' = [NoEvent EXCEPT !.op = "write_page", !.cpu = cpu,
                              !.prev_pid = cur[cpu]]
    /\ ProbeFrame

\* The largest vector the model's integers can hold, standing for the large
\* values of an unsigned int.
BigVec == 2 ^ 30 + (2 ^ 30 - 1)

\* The vectors a softirq_entry may carry.
Vecs == (0 .. MaxVec) \cup {BigVec}

\* Context switches (without the sampling knob, each at a single clock
\* value) interleaved with the other probes.
InitProbes == Init /\ SAMPLE_RATE = 0

NextProbes ==
    /\ nevents < MaxEvents - 1
    /\ \/ \E cpu \in Cpus, next \in Tids, ts \in Times, hv \in HwSamples :
              SchedSwitch(cpu, next, ts, ts, hv, {})
       \/ \E cpu \in Cpus, vec \in Vecs : SoftirqEntry(cpu, vec)
       \/ \E cpu \in Cpus : ReadPage(cpu)
       \/ \E cpu \in Cpus : WritePage(cpu)

SpecProbes == InitProbes /\ [][NextProbes]_vars

\* -------------------------------------- a machine with more CPUs
\* The ids of the machine's CPUs when it has more of them than NUM_CPUS: the
\* first one is CPU 0, the others lie beyond the arrays.
CpuIdOf(cpu) == IF cpu = 0 THEN 0 ELSE NUM_CPUS + cpu

\* tracepoint sched/sched_switch on the CPU with id CpuIdOf(cpu).
SchedSwitchOn(cpu, next, ts, ts2, hv, fail) ==
    /\ CanSwitchTo(cpu, next)
    /\ ts >= clock
    /\ ts2 >= ts
    /\ SwitchPath # "sampled" => ts2 = ts
    /\ LET prev == cur[cpu]
           reads == [k \in Kinds |-> PerfRead(k \in fail, hv[k])]
           r == do_kepler_sched_switch_trace(prev, next, TgidOf(prev),
                                             TgidOf(next), prev, CpuIdOf(cpu),
                                             ts, ts2, reads)
       IN /\ counter_sched_switch' = r.counter
          /\ processes' = r.processes
          /\ pid_time_map' = r.pid_time_map
          /\ cpu_cycles' = r.arrays.cpu_cycles
          /\ cpu_instructions' = r.arrays.cpu_instructions
          /\ cache_miss' = r.arrays.cache_miss
          /\ ev' = [NoEvent EXCEPT !.op = "switch", !.cpu = cpu,
                                    !.prev_pid = prev, !.next_pid = next,
                                    !.ts = ts, !.path = r.path,
                                    !.cpu_time = r.buf.process_run_time,
                                    !.val = CpuIdOf(cpu),
                                    !.delta = r.buf.cpu_cycles
                                                  + r.buf.cpu_instr
                                                  + r.buf.cache_miss,
                                    !.fails = fail,
                                    !.since = IF r.path = "sampled" THEN 0
                                              ELSE ev.since + 1]
          /\ hist' = [hist EXCEPT
                         ![next] = [arrive |-> ts2, takes |-> 0, nonzero |-> 0],
                         ![prev] = Departed(@, r.path # "skip",
                                            r.buf.process_run_time)]
    /\ cur' = [cur EXCEPT ![cpu] = next]
    /\ hwc' = [hwc EXCEPT ![cpu] = hv]
    /\ clock' = ts2
    /\ nevents' = nevents + 1
    /\ UNCHANGED <<SAMPLE_RATE, HW, TEST, seen, taking, lru, rb, running>>

InitHighCpu == Init /\ SAMPLE_RATE <= 1

\* Context switches on CPU 0 and on the CPUs beyond the arrays, whose perf
\* reads fail or not.
NextHighCpu ==
    /\ nevents < MaxEvents - 1
    /\ \E cpu \in Cpus, next \in Tids, ts \in Times, hv \in HwSamples,
          fail \in {{}, Kinds} :
           SchedSwitchOn(cpu, next, ts, ts, hv, fail)

SpecHighCpu == InitHighCpu /\ [][NextHighCpu]_vars

\* ------------------------------------------- a long run of soft-IRQs
\* The idle process is registered and nothing is counted for it yet.
InitIrqCount ==
    /\ SAMPLE_RATE = 0
    /\ HW = 1
    /\ TEST = 0
    /\ counter_sched_switch = 0
    /\ processes = [p \in {TgidOf(IdleTid)} |->
                       [ZeroMetrics EXCEPT !.pid = p,
                                           !.cgroup_id = CgroupOf(IdleTid),
                                           !.comm = CommOf(IdleTid)]]
    /\ pid_time_map = EmptyMap
    /\ cpu_cycles = [c \in ArrayIndex |-> 0]
    /\ cpu_instructions = [c \in ArrayIndex |-> 0]
    /\ cache_miss = [c \in ArrayIndex |-> 0]
    /\ InitEnv

\* The vector the soft-IRQs of the long run arrive on.
CountedVec == 3

\* The CPUs stay idle and take soft-IRQs on one vector, a few more than a u16 holds.
NextIrqCount ==
    /\ nevents < U16 + MaxEvents
    /\ \E cpu \in Cpus : SoftirqEntry(cpu, CountedVec)

SpecIrqCount == InitIrqCount /\ [][NextIrqCount]_vars

\* ------------------------------------------------- the test programs
\* The test programs call the handlers' bodies with arguments of their own,
\* in the task that runs the test (the one on the CPU).
\* test_register_new_process_if_not_exist
TestRegister(cpu, tgid) ==
    /\ processes' = register_new_process_if_not_exist(processes, tgid,
                                                      cur[cpu], TEST)
    /\ ev' = [NoEvent EXCEPT !.op = "test_register", !.cpu = cpu,
                              !.prev_tgid = tgid]
    /\ ProbeFrame

\* test_kepler_write_page_trace
TestPageHit(cpu, curr_pid) ==
    /\ processes' = do_page_cache_hit_increment(processes, curr_pid)
    /\ ev' = [NoEvent EXCEPT !.op = "test_page", !.cpu = cpu,
                              !.prev_tgid = curr_pid]
    /\ ProbeFrame

\* test_kepler_sched_switch_trace
TestSwitch(cpu, prev_pid, next_pid, prev_tgid, next_tgid, ts, ts2, hv) ==
    /\ ts >= clock
    /\ ts2 >= ts
    /\ SwitchPath # "sampled" => ts2 = ts
    /\ LET reads == [k \in Kinds |-> PerfRead(FALSE, hv[k])]
           r == do_kepler_sched_switch_trace(prev_pid, next_pid, prev_tgid,
                                             next_tgid, cur[cpu], cpu, ts, ts2,
                                             reads)
       IN /\ counter_sched_switch' = r.counter
          /\ processes' = r.processes
          /\ pid_time_map' = r.pid_time_map
          /\ cpu_cycles' = r.arrays.cpu_cycles
          /\ cpu_instructions' = r.arrays.cpu_instructions
          /\ cache_miss' = r.arrays.cache_miss
          /\ ev' = [NoEvent EXCEPT !.op = "test_switch", !.cpu = cpu,
                                    !.prev_pid = prev_pid,
                                    !.next_pid = next_pid,
                                    !.prev_tgid = prev_tgid,
                                    !.next_tgid = next_tgid,
                                    !.ts = ts, !.path = r.path,
                                    !.cpu_time = r.buf.process_run_time,
                                    !.since = IF r.path = "sampled" THEN 0
                                              ELSE ev.since + 1]
          /\ seen' = IF r.path = "skip" \/ HW = 0 THEN seen
                     ELSE seen \cup {<<cpu, k>> : k \in Kinds}
          /\ hist' = [t \in Tids |->
                         IF t = next_pid /\ r.path # "skip"
                         THEN [arrive |-> ts2, takes |-> 0, nonzero |-> 0]
                         ELSE IF t = prev_pid
                         THEN Departed(hist[t], r.path # "skip",
                                       r.buf.process_run_time)
                         ELSE hist[t]]
    /\ hwc' = [hwc EXCEPT ![cpu] = hv]
    /\ clock' = ts2
    /\ nevents' = nevents + 1
    /\ UNCHANGED <<SAMPLE_RATE, HW, TEST, cur, taking, lru, rb, running>>

\* The loader of the tests sets TEST; the tests run without the sampling knob
\* and with every other switch sampled.
InitTests ==
    /\ SAMPLE_RATE \in 0 .. 1
    /\ HW = 1
    /\ TEST = 1
    /\ InitMaps
    /\ InitEnv

\* The ids the tests pass for pids and tgids.
TestIds == 0 .. MaxTid

\* The tests run on CPU 0 and, as test.bpf.c does, pass a thread's pid as its
\* tgid too.
NextTests ==
    /\ nevents < MaxEvents - 1
    /\ \/ \E tgid \in TestIds : TestRegister(0, tgid)
       \/ \E curr_pid \in TestIds : TestPageHit(0, curr_pid)
       \/ \E prev_pid \in TestIds, next_pid \in TestIds, ts \in Times,
             hv \in HwSamples :
              TestSwitch(0, prev_pid, next_pid, prev_pid, next_pid, ts, ts, hv)

SpecTests == InitTests /\ [][NextTests]_vars

\* ------------------------------------ takes of two CPUs, step by step
\* prev_ts = bpf_map_lookup_elem(&pid_time_map, &pid); if found,
\* cpu_time = calc_delta(prev_ts, &curr_ts) / 1000.
take_lookup(ptm, prev_pid, curr_ts) ==
    IF Has(ptm, prev_pid)
    THEN [pid |-> prev_pid, found |-> TRUE,
          cpu_time |-> calc_delta(ptm[prev_pid], curr_ts) \div 1000]
    ELSE [pid |-> prev_pid, found |-> FALSE, cpu_time |-> 0]

\* if (prev_ts) bpf_map_delete_elem(&pid_time_map, &pid);
take_delete(ptm, tk) == IF tk.found THEN MapDelete(ptm, tk.pid) ELSE ptm

\* A handler stores the timestamp of the arriving tid: a new on-CPU interval.
RaceMark(tid, ts) ==
    /\ pid_time_map' = HashUpdate(pid_time_map, tid, ts, BPF_ANY)
    /\ hist' = [hist EXCEPT
                   ![tid] = [arrive |-> ts, takes |-> 0, nonzero |-> 0]]
    /\ ev' = [NoEvent EXCEPT !.op = "mark", !.next_pid = tid, !.ts = ts]
    /\ nevents' = nevents + 1
    /\ UNCHANGED <<SAMPLE_RATE, HW, TEST, counter_sched_switch, processes,
                   cpu_cycles, cpu_instructions, cache_miss, cur, hwc, clock,
                   seen, taking, lru, rb, running>>

\* The handler on cpu enters get_on_cpu_elapsed_time_us(tid, now) and gets as
\* far as computing cpu_time from the entry it found.
TakeLookup(cpu, tid, now) ==
    /\ taking[cpu] = NoTake
    /\ taking' = [taking EXCEPT ![cpu] = take_lookup(pid_time_map, tid, now)]
    /\ hist' = [hist EXCEPT ![tid] = Departed(@, TRUE, taking'[cpu].cpu_time)]
    /\ ev' = [NoEvent EXCEPT !.op = "lookup", !.cpu = cpu, !.prev_pid = tid,
                              !.ts = now, !.cpu_time = taking'[cpu].cpu_time]
    /\ nevents' = nevents + 1
    /\ UNCHANGED <<SAMPLE_RATE, HW, TEST, counter_sched_switch, processes,
                   pid_time_map, cpu_cycles, cpu_instructions, cache_miss, cur,
                   hwc, clock, seen, lru, rb, running>>

\* The handler on cpu deletes the entry it found and returns cpu_time.
TakeDelete(cpu) ==
    /\ taking[cpu] # NoTake
    /\ pid_time_map' = take_delete(pid_time_map, taking[cpu])
    /\ taking' = [taking EXCEPT ![cpu] = NoTake]
    /\ ev' = [NoEvent EXCEPT !.op = "take", !.cpu = cpu,
                              !.prev_pid = taking[cpu].pid,
                              !.cpu_time = taking[cpu].cpu_time]
    /\ nevents' = nevents + 1
    /\ UNCHANGED <<SAMPLE_RATE, HW, TEST, counter_sched_switch, processes,
                   cpu_cycles, cpu_instructions, cache_miss, cur, hwc, clock,
                   hist, seen, lru, rb, running>>

\* The handlers of the CPUs run at the same time: their steps interleave.
InitRace == Init /\ SAMPLE_RATE = 0

NextRace ==
    /\ nevents < MaxEvents + 1
    /\ \/ \E tid \in Tids, ts \in Times : RaceMark(tid, ts)
       \/ \E cpu \in Cpus, tid \in Tids, now \in Times :
              TakeLookup(cpu, tid, now)
       \/ \E cpu \in Cpus : TakeDelete(cpu)

SpecRace == InitRace /\ [][NextRace]_vars

\* --------------------------------------------------- the event emitter
\* The probe on cpu starts an emit: it reserves a record, or drops the event.
EmitReserve(cpu, variant) ==
    /\ rb.emitting[cpu] = NoEmit
    /\ rb' = ring_buffer_reserve(rb, cpu, variant)
    /\ ev' = [NoEvent EXCEPT !.op = IF rb'.emitting[cpu] = NoEmit THEN "drop"
                                     ELSE "reserve",
                              !.cpu = cpu, !.val = rb'.seq[cpu]]
    /\ nevents' = nevents + 1
    /\ UNCHANGED <<SAMPLE_RATE, HW, TEST, counter_sched_switch, processes,
                   pid_time_map, cpu_cycles, cpu_instructions, cache_miss, cur,
                   hwc, clock, hist, seen, taking, lru, running>>

\* The probe on cpu fills its record and submits it.
EmitSubmit(cpu) ==
    /\ rb.emitting[cpu] # NoEmit
    /\ rb' = ring_buffer_submit(rb, cpu)
    /\ ev' = [NoEvent EXCEPT !.op = "submit", !.cpu = cpu,
                              !.val = rb.emitting[cpu].seq]
    /\ nevents' = nevents + 1
    /\ UNCHANGED <<SAMPLE_RATE, HW, TEST, counter_sched_switch, processes,
                   pid_time_map, cpu_cycles, cpu_instructions, cache_miss, cur,
                   hwc, clock, hist, seen, taking, lru, running>>

\* User space reads one record.
Consume ==
    /\ ring_buffer_readable(rb)
    /\ rb' = ring_buffer_consume(rb)
    /\ ev' = [NoEvent EXCEPT !.op = "consume"]
    /\ nevents' = nevents + 1
    /\ UNCHANGED <<SAMPLE_RATE, HW, TEST, counter_sched_switch, processes,
                   pid_time_map, cpu_cycles, cpu_instructions, cache_miss, cur,
                   hwc, clock, hist, seen, taking, lru, running>>

InitRing == Init /\ SAMPLE_RATE = 0

\* One producer per CPU and the consumer, in any interleaving.
NextRing ==
    /\ nevents < 2 * MaxEvents + 2
    /\ \/ \E cpu \in Cpus, variant \in Variants : EmitReserve(cpu, variant)
       \/ \E cpu \in Cpus : EmitSubmit(cpu)
       \/ Consume

SpecRing == InitRing /\ [][NextRing]_vars

\* --------------------------- accumulations of two CPUs, step by step
\* The four fields the handler adds to, in the order it does.
AccFields == <<"process_run_time", "cpu_cycles", "cpu_instr", "cache_miss">>

\* The bufs of a departure with a duration above 0.
AccBufs ==
    {[ZeroMetrics EXCEPT !.process_run_time = d, !.cpu_cycles = w,
                         !.cpu_instr = (2 * w) % (MaxCount + 1),
                         !.cache_miss = MaxCount - w] :
        d \in 1 .. 2, w \in HwValues}

\* The handler on cpu has collected buf with process_run_time > 0 and its
\* lookup of prev_tgid has found the entry.
AccBegin(cpu, prev_tgid, buf) ==
    /\ running[cpu].pc = "idle"
    /\ buf.process_run_time > 0
    /\ Has(processes, prev_tgid)
    /\ running' = [running EXCEPT ![cpu] = [NoRun EXCEPT !.pc = "load",
                                                         !.tgid = prev_tgid,
                                                         !.buf = buf,
                                                         !.field = 1]]
    /\ ev' = [NoEvent EXCEPT !.op = "acc_begin", !.cpu = cpu,
                              !.prev_tgid = prev_tgid]
    /\ nevents' = nevents + 1
    /\ UNCHANGED <<SAMPLE_RATE, HW, TEST, counter_sched_switch, processes,
                   pid_time_map, cpu_cycles, cpu_instructions, cache_miss, cur,
                   hwc, clock, hist, seen, taking, lru, rb>>

\* prev_tgid_metrics->x += buf.x, first half: the field is loaded.
AccLoad(cpu) ==
    /\ running[cpu].pc = "load"
    /\ running' = [running EXCEPT
                       ![cpu].pc = "store",
                       ![cpu].tmp = processes[running[cpu].tgid][
                                        AccFields[running[cpu].field]]]
    /\ ev' = [NoEvent EXCEPT !.op = "acc_load", !.cpu = cpu]
    /\ UNCHANGED <<SAMPLE_RATE, HW, TEST, counter_sched_switch, processes,
                   pid_time_map, cpu_cycles, cpu_instructions, cache_miss, cur,
                   hwc, clock, hist, seen, nevents, taking, lru, rb>>

\* prev_tgid_metrics->x += buf.x, second half: the sum is stored.  After the
\* fourth field the handler is done.
AccStore(cpu) ==
    /\ running[cpu].pc = "store"
    /\ LET r == running[cpu]
           f == AccFields[r.field]
       IN /\ processes' = [processes EXCEPT
                               ![r.tgid][f] = (r.tmp + r.buf[f]) % U64]
          /\ running' = [running EXCEPT
                             ![cpu].pc = IF r.field = Len(AccFields)
                                         THEN "done" ELSE "load",
                             ![cpu].field = IF r.field = Len(AccFields)
                                            THEN r.field ELSE r.field + 1]
    /\ ev' = [NoEvent EXCEPT !.op = "acc_store", !.cpu = cpu]
    /\ UNCHANGED <<SAMPLE_RATE, HW, TEST, counter_sched_switch, pid_time_map,
                   cpu_cycles, cpu_instructions, cache_miss, cur, hwc, clock,
                   hist, seen, nevents, taking, lru, rb>>

\* Every process is registered and has nothing accumulated yet.
InitAccRace ==
    /\ SAMPLE_RATE = 0
    /\ HW = 1
    /\ TEST = 0
    /\ counter_sched_switch = 0
    /\ processes = [p \in Tgids |->
                       [ZeroMetrics EXCEPT !.pid = p, !.cgroup_id = 10 + p]]
    /\ pid_time_map = EmptyMap
    /\ cpu_cycles = [c \in ArrayIndex |-> 0]
    /\ cpu_instructions = [c \in ArrayIndex |-> 0]
    /\ cache_miss = [c \in ArrayIndex |-> 0]
    /\ InitEnv

\* One departure per CPU; the handlers' memory accesses interleave.
NextAccRace ==
    \/ \E cpu \in Cpus, prev_tgid \in Tgids, buf \in AccBufs :
           AccBegin(cpu, prev_tgid, buf)
    \/ \E cpu \in Cpus : AccLoad(cpu)
    \/ \E cpu \in Cpus : AccStore(cpu)

SpecAccRace == InitAccRace /\ [][NextAccRace]_vars

\* ------------------------ the sampling test of two CPUs, step by step
\* if (SAMPLE_RATE > 0) { if (counter_sched_switch > 0): the handler on cpu
\* loads the counter and takes its branch.
CounterTest(cpu) ==
    /\ nevents < 2 * MaxEvents
    /\ running[cpu].pc = "idle"
    /\ running' = [running EXCEPT
                       ![cpu].pc = IF SAMPLE_RATE = 0 THEN "idle"
                                   ELSE IF counter_sched_switch > 0 THEN "dec"
                                   ELSE "reset",
                       ![cpu].tmp = counter_sched_switch]
    /\ ev' = [NoEvent EXCEPT !.op = "counter_test", !.cpu = cpu,
                              !.val = counter_sched_switch]
    /\ nevents' = nevents + 1
    /\ UNCHANGED <<SAMPLE_RATE, HW, TEST, counter_sched_switch, processes,
                   pid_time_map, cpu_cycles, cpu_instructions, cache_miss, cur,
                   hwc, clock, hist, seen, taking, lru, rb>>

\* counter_sched_switch--; return 0.  The counter is a plain int: the
\* decrement works on the value the test loaded or on one it loads again.
CounterDecrement(cpu, reload) ==
    /\ running[cpu].pc = "dec"
    /\ counter_sched_switch' = (IF reload THEN counter_sched_switch
                                ELSE running[cpu].tmp) - 1
    /\ running' = [running EXCEPT ![cpu] = NoRun]
    /\ ev' = [NoEvent EXCEPT !.op = "counter_dec", !.cpu = cpu,
                              !.val = counter_sched_switch']
    /\ UNCHANGED <<SAMPLE_RATE, HW, TEST, processes, pid_time_map, cpu_cycles,
                   cpu_instructions, cache_miss, cur, hwc, clock, hist, seen,
                   nevents, taking, lru, rb>>

\* counter_sched_switch = SAMPLE_RATE
CounterReset(cpu) ==
    /\ running[cpu].pc = "reset"
    /\ counter_sched_switch' = SAMPLE_RATE
    /\ running' = [running EXCEPT ![cpu] = NoRun]
    /\ ev' = [NoEvent EXCEPT !.op = "counter_reset", !.cpu = cpu,
                              !.val = counter_sched_switch']
    /\ UNCHANGED <<SAMPLE_RATE, HW, TEST, processes, pid_time_map, cpu_cycles,
                   cpu_instructions, cache_miss, cur, hwc, clock, hist, seen,
                   nevents, taking, lru, rb>>

InitCounterRace == Init

\* The handlers of the CPUs run their sampling tests at the same time.
NextCounterRace ==
    \/ \E cpu \in Cpus : CounterTest(cpu)
    \/ \E cpu \in Cpus, reload \in BOOLEAN : CounterDecrement(cpu, reload)
    \/ \E cpu \in Cpus : CounterReset(cpu)

SpecCounterRace == InitCounterRace /\ [][NextCounterRace]_vars

\* ------------------------------------------- the libbpf kprobe program
\* The program attached to finish_task_switch has maps of the names of the
\* maps above (pid_time for pid_time_map, plain hash maps that stay below
\* MAP_SIZE) and its own sample_rate and counter_sched_switch; the variables
\* of those names hold them here.  Its reference-cycle, task-clock and
\* frequency maps, which no other part of the handler reads, are left out.
\* Returns cpu_time (in ms) and the pid_time it leaves.
get_on_cpu_time(ptm, cur_pid, prev_pid, cur_ts) ==
    LET taken == Has(ptm, prev_pid) /\ cur_ts > ptm[prev_pid]
        after == IF taken THEN MapDelete(ptm, prev_pid) ELSE ptm
    IN [cpu_time |-> IF taken THEN (cur_ts - ptm[prev_pid]) \div 1000000
                     ELSE 0,
        map |-> HashUpdate(after, cur_pid, cur_ts, BPF_NOEXIST)]

\* kprobe__finish_task_switch(prev_task) on cpu_id, running in the arriving
\* thread current: prev_pid is the tgid of prev_task, cur_pid the thread id
\* of current.
kprobe__finish_task_switch(prev_task, current, cpu_id, cur_ts, reads) ==
    IF SAMPLE_RATE # 0 /\ counter_sched_switch > 0
    THEN [counter |-> counter_sched_switch - 1, path |-> "skip",
          cpu_cycles |-> cpu_cycles, cpu_instructions |-> cpu_instructions,
          cache_miss |-> cache_miss, pid_time |-> pid_time_map,
          processes |-> processes, cpu_time |-> 0]
    ELSE LET prev_pid == TgidOf(prev_task)
             cur_pid == current
             cy == get_on_cpu_cycles(cpu_cycles, cpu_id, reads.cycles)
             ins == get_on_cpu_instr(cpu_instructions, cpu_id, reads.instr)
             cm == get_on_cpu_cache_miss(cache_miss, cpu_id, reads.miss)
             tm == get_on_cpu_time(pid_time_map, cur_pid, prev_pid, cur_ts)
             acc == IF Has(processes, prev_pid)
                    THEN [processes EXCEPT
                             ![prev_pid].process_run_time =
                                 (@ + tm.cpu_time) % U64,
                             ![prev_pid].cpu_cycles = (@ + cy.delta) % U64,
                             ![prev_pid].cpu_instr = (@ + ins.delta) % U64,
                             ![prev_pid].cache_miss = (@ + cm.delta) % U64]
                    ELSE processes
         IN [counter |-> IF SAMPLE_RATE # 0 THEN SAMPLE_RATE
                         ELSE counter_sched_switch,
             path |-> "sampled",
             cpu_cycles |-> cy.arr, cpu_instructions |-> ins.arr,
             cache_miss |-> cm.arr, pid_time |-> tm.map,
             processes |->
                 IF Has(acc, cur_pid) THEN acc
                 ELSE HashUpdate(acc, cur_pid,
                                 [ZeroMetrics EXCEPT
                                      !.pid = cur_pid,
                                      !.cgroup_id = CgroupOf(current),
                                      !.comm = CommOf(current)],
                                 BPF_NOEXIST),
             cpu_time |-> tm.cpu_time]

\* kprobe/finish_task_switch on cpu: next has arrived in place of the thread
\* that ran there.  ev.prev_val is the pid_time entry next had before the
\* handler ran (NULL: none).
FinishTaskSwitch(cpu, next, ts, hv) ==
    /\ CanSwitchTo(cpu, next)
    /\ ts >= clock
    /\ LET prev == cur[cpu]
           reads == [k \in Kinds |-> PerfRead(FALSE, hv[k])]
           r == kprobe__finish_task_switch(prev, next, cpu, ts, reads)
       IN /\ counter_sched_switch' = r.counter
          /\ processes' = r.processes
          /\ pid_time_map' = r.pid_time
          /\ cpu_cycles' = r.cpu_cycles
          /\ cpu_instructions' = r.cpu_instructions
          /\ cache_miss' = r.cache_miss
          /\ ev' = [NoEvent EXCEPT !.op = "finish_task_switch", !.cpu = cpu,
                                    !.prev_pid = prev, !.next_pid = next,
                                    !.ts = ts, !.path = r.path,
                                    !.cpu_time = r.cpu_time,
                                    !.prev_val =
                                        IF Has(pid_time_map, next)
                                        THEN pid_time_map[next] ELSE NULL]
    /\ cur' = [cur EXCEPT ![cpu] = next]
    /\ hwc' = [hwc EXCEPT ![cpu] = hv]
    /\ clock' = ts
    /\ nevents' = nevents + 1
    /\ UNCHANGED <<SAMPLE_RATE, HW, TEST, hist, seen, taking, lru, rb, running>>

\* int sample_rate = 1, or what user space has set it to.
InitKprobe == Init

NextKprobe ==
    /\ nevents < MaxEvents - 1
    /\ \E cpu \in Cpus, next \in Tids, ts \in Times, hv \in HwSamples :
           FinishTaskSwitch(cpu, next, ts, hv)

SpecKprobe == InitKprobe /\ [][NextKprobe]_vars

\* --------------------------------------- the legacy perf-event program
\* The program's maps are processes (keyed by process id, process_time_t),
\* pid_time, and the baselines prev_cpu_cycles, prev_cpu_instr and
\* prev_cache_miss, which the variables processes, pid_time_map, cpu_cycles,
\* cpu_instructions and cache_miss hold here.  cpu_freq_array and the
\* frequency fields of process_time_t, which the durations and deltas do not
\* depend on, are left out.
\* (s64)val of a u64 val
s64(val) == IF val >= U64 \div 2 THEN val - U64 ELSE val

\* perf_read(CUR_CPU_IDENTIFIER): the counter value, or a small negative
\* error code.
perf_read(failed, hw) == IF failed THEN (0 - 2) % U64 ELSE hw

\* One counter of sched_switch: its delta and the baseline array it leaves.
perf_delta(arr, cpu, val) ==
    IF s64(val) > 0 \/ s64(val) < 0 - 256
    THEN [delta |-> IF ArrayLookup(arr, cpu) # NULL
                    THEN (val - ArrayLookup(arr, cpu)) % U64 ELSE 0,
          arr |-> ArrayUpdate(arr, cpu, val)]
    ELSE [delta |-> 0, arr |-> arr]

\* process_time_t new_process = {}
process_time_t ==
    [cgroup_id |-> 0, pid |-> 0, time |-> 0, cpu_cycles |-> 0, cpu_instr |-> 0,
     cache_misses |-> 0, start_time |-> 0, comm |-> 0]

\* sched_switch(ctx) on cpu, running in the departing thread current: returns
\* the maps it leaves, the duration delta and the three counter deltas.
sched_switch(prev_pid, next_pid, current, cpu, time, vals) ==
    LET pid == TgidOf(current)
        found == Has(pid_time_map, prev_pid)
        delta == IF found THEN ((time - pid_time_map[prev_pid]) % U64) \div 1000
                 ELSE 0
        cy == perf_delta(cpu_cycles, cpu, vals.cycles)
        ins == perf_delta(cpu_instructions, cpu, vals.instr)
        cm == perf_delta(cache_miss, cpu, vals.miss)
    IN IF found /\ delta = 0
       THEN [path |-> "return", delta |-> 0, cycles |-> 0, instr |-> 0,
             miss |-> 0, pid_time |-> pid_time_map, processes |-> processes,
             cpu_cycles |-> cpu_cycles, cpu_instructions |-> cpu_instructions,
             cache_miss |-> cache_miss]
       ELSE [path |-> "sampled", delta |-> delta, cycles |-> cy.delta,
             instr |-> ins.delta, miss |-> cm.delta,
             pid_time |-> HashUpdate(MapDelete(pid_time_map, prev_pid),
                                     next_pid, time, BPF_ANY),
             processes |->
                 IF Has(processes, pid)
                 THEN [processes EXCEPT
                          ![pid].time = (@ + delta) % U64,
                          ![pid].cpu_cycles = (@ + cy.delta) % U64,
                          ![pid].cpu_instr = (@ + ins.delta) % U64,
                          ![pid].cache_misses = (@ + cm.delta) % U64]
                 ELSE HashUpdate(processes, pid,
                                 [process_time_t EXCEPT
                                      !.pid = pid, !.time = delta,
                                      !.cpu_cycles = cy.delta,
                                      !.cpu_instr = ins.delta,
                                      !.cache_misses = cm.delta,
                                      !.comm = CommOf(current),
                                      !.start_time = time,
                                      !.cgroup_id = CgroupOf(current)],
                                 BPF_ANY),
             cpu_cycles |-> cy.arr, cpu_instructions |-> ins.arr,
             cache_miss |-> cm.arr]

\* The legacy sched_switch tracepoint on cpu.  ev.prev_val is the last_time
\* the lookup found (NULL: none), ev.val the cycle counter read and ev.delta
\* the cycle delta; ev.kind tells whether the read was below the baseline.
LegacySwitch(cpu, next, ts, hv, fail) ==
    /\ CanSwitchTo(cpu, next)
    /\ ts >= clock
    /\ LET prev == cur[cpu]
           vals == [k \in Kinds |-> perf_read(k \in fail, hv[k])]
           r == sched_switch(prev, next, prev, cpu, ts, vals)
       IN /\ processes' = r.processes
          /\ pid_time_map' = r.pid_time
          /\ cpu_cycles' = r.cpu_cycles
          /\ cpu_instructions' = r.cpu_instructions
          /\ cache_miss' = r.cache_miss
          /\ ev' = [NoEvent EXCEPT !.op = "legacy_switch", !.cpu = cpu,
                                    !.prev_pid = prev, !.next_pid = next,
                                    !.ts = ts, !.path = r.path,
                                    !.cpu_time = r.delta,
                                    !.val = vals.cycles,
                                    !.delta = r.cycles,
                                    !.fails = fail,
                                    !.kind = IF vals.cycles < cpu_cycles[cpu]
                                             THEN "below" ELSE "none",
                                    !.prev_val =
                                        IF Has(pid_time_map, prev)
                                        THEN pid_time_map[prev] ELSE NULL]
    /\ cur' = [cur EXCEPT ![cpu] = next]
    /\ hwc' = [hwc EXCEPT ![cpu] = hv]
    /\ clock' = ts
    /\ nevents' = nevents + 1
    /\ UNCHANGED <<SAMPLE_RATE, HW, TEST, counter_sched_switch, hist, seen,
                   taking, lru, rb, running>>

InitLegacy == Init /\ SAMPLE_RATE = 0

NextLegacy ==
    /\ nevents < MaxEvents - 1
    /\ \E cpu \in Cpus, next \in Tids, ts \in Times, hv \in HwSamples,
          fail \in {{}, {"cycles"}} :
           LegacySwitch(cpu, next, ts, hv, fail)

SpecLegacy == InitLegacy /\ [][NextLegacy]_vars

\* ------------------------------ bpf_map_lookup_or_try_init, step by step
\* The map is a hash map of MaxEntries entries, which pid_time_map holds
\* here; its keys are thread ids and its values the init values below.
\* -EEXIST, the err the helper lets through
EEXIST == 17
\* -E2BIG, the err of an insert into a full hash map
E2BIG == 7
InitVals == 1 .. MaxCount

\* Mutant: the insert is done with BPF_ANY.
try_init_any(map, key, init) ==
    IF ~Has(map, key) /\ Cardinality(DOMAIN map) >= MaxEntries
    THEN [err |-> 0 - E2BIG, map |-> map]
    ELSE [err |-> 0, map |-> HashUpdate(map, key, init, BPF_ANY)]

\* err = bpf_map_update_elem(map, key, init, BPF_NOEXIST): the err and the
\* map it leaves.
try_init(map, key, init) ==
    IF Has(map, key) THEN [err |-> 0 - EEXIST, map |-> map]
    ELSE IF Cardinality(DOMAIN map) >= MaxEntries
    THEN [err |-> 0 - E2BIG, map |-> map]
    ELSE [err |-> 0, map |-> HashUpdate(map, key, init, BPF_NOEXIST)]

\* What a call has returned: ev.next_pid is the key, ev.delta the init value,
\* ev.val the value returned (NULL: null), ev.prev_val the err of the insert
\* (NULL: no insert was tried) and ev.path where the call returned.
Returned(cpu, key, init, val, err, where) ==
    [NoEvent EXCEPT !.op = "lookup_or_try_init", !.cpu = cpu,
                    !.next_pid = key, !.delta = init, !.val = val,
                    !.prev_val = err, !.path = where]

\* val = bpf_map_lookup_elem(map, key); if (val) return val;
LookupOrInitLookup(cpu, key, init) ==
    /\ nevents < MaxEvents
    /\ running[cpu].pc = "idle"
    /\ IF Has(pid_time_map, key)
       THEN /\ ev' = Returned(cpu, key, init, pid_time_map[key], NULL, "found")
            /\ UNCHANGED running
       ELSE /\ running' = [running EXCEPT ![cpu].pc = "update",
                                          ![cpu].tgid = key,
                                          ![cpu].tmp = init]
            /\ ev' = [NoEvent EXCEPT !.op = "lookup_miss", !.cpu = cpu,
                                      !.next_pid = key]
    /\ nevents' = nevents + 1
    /\ UNCHANGED <<SAMPLE_RATE, HW, TEST, counter_sched_switch, processes,
                   pid_time_map, cpu_cycles, cpu_instructions, cache_miss, cur,
                   hwc, clock, hist, seen, taking, lru, rb>>

\* err = bpf_map_update_elem(map, key, init, BPF_NOEXIST);
\* if (err && err != -17) return 0;
LookupOrInitUpdate(cpu) ==
    /\ running[cpu].pc = "update"
    /\ LET key == running[cpu].tgid
           init == running[cpu].tmp
           r == try_init(pid_time_map, key, init)
       IN /\ pid_time_map' = r.map
          /\ IF r.err # 0 /\ r.err # 0 - EEXIST
             THEN /\ running' = [running EXCEPT ![cpu] = NoRun]
                  /\ ev' = Returned(cpu, key, init, NULL, r.err, "failed")
             ELSE /\ running' = [running EXCEPT ![cpu].pc = "lookup",
                                                ![cpu].field = r.err]
                  /\ ev' = [NoEvent EXCEPT !.op = "try_init", !.cpu = cpu,
                                            !.next_pid = key,
                                            !.prev_val = r.err]
    /\ UNCHANGED <<SAMPLE_RATE, HW, TEST, counter_sched_switch, processes,
                   cpu_cycles, cpu_instructions, cache_miss, cur, hwc, clock,
                   hist, seen, nevents, taking, lru, rb>>

\* return bpf_map_lookup_elem(map, key);
LookupOrInitReturn(cpu) ==
    /\ running[cpu].pc = "lookup"
    /\ LET key == running[cpu].tgid
       IN ev' = Returned(cpu, key, running[cpu].tmp,
                         IF Has(pid_time_map, key) THEN pid_time_map[key]
                         ELSE NULL,
                         running[cpu].field, "looked_up")
    /\ running' = [running EXCEPT ![cpu] = NoRun]
    /\ UNCHANGED <<SAMPLE_RATE, HW, TEST, counter_sched_switch, processes,
                   pid_time_map, cpu_cycles, cpu_instructions, cache_miss, cur,
                   hwc, clock, hist, seen, nevents, taking, lru, rb>>

\* bpf_map_delete_elem(map, key) by another handler of the program, as the
\* take of a departing thread does on pid_time_map.
DeleteElem(key) ==
    /\ Has(pid_time_map, key)
    /\ pid_time_map' = MapDelete(pid_time_map, key)
    /\ ev' = [NoEvent EXCEPT !.op = "delete", !.next_pid = key]
    /\ UNCHANGED <<SAMPLE_RATE, HW, TEST, counter_sched_switch, processes,
                   cpu_cycles, cpu_instructions, cache_miss, cur, hwc, clock,
                   hist, seen, nevents, taking, lru, rb, running>>

InitLookupOrInit == Init /\ SAMPLE_RATE = 0

\* The CPUs call bpf_map_lookup_or_try_init at the same time, on the same or
\* on different keys, while entries are deleted.
NextLookupOrInit ==
    \/ \E cpu \in Cpus, key \in Tids, init \in InitVals :
           LookupOrInitLookup(cpu, key, init)
    \/ \E cpu \in Cpus : LookupOrInitUpdate(cpu)
    \/ \E cpu \in Cpus : LookupOrInitReturn(cpu)
    \/ \E key \in Tids : DeleteElem(key)

SpecLookupOrInit == InitLookupOrInit /\ [][NextLookupOrInit]_vars

\* ================================================================ claims
\* The four accumulated metrics of a process entry.
Metrics(m) ==
    <<m.process_run_time, m.cpu_cycles, m.cpu_instr, m.cache_miss>>

\* The last invocation was a sched_switch handler that called
\* collect_metrics_and_reset_counters (it was not skipped by SAMPLE_RATE).
Collected == ev.op = "switch" /\ ev.path # "skip"

\* C1: at-most-once duration attribution.  Between two arrivals of a tid, at
\* most one sched_switch handling obtains a non-zero duration for it, and a
\* handling that takes the duration of a tid again, with no arrival of the tid
\* since the previous take, gets 0.
C1_AtMostOnce ==
    /\ \A t \in Tids : hist[t].nonzero <= 1
    /\ (Collected /\ hist[ev.prev_pid].takes >= 2) => ev.cpu_time = 0

\* C1's case: a tid whose duration was taken non-zero departs a second time
\* with no arrival in between, and gets 0.
C1_Witness ==
    /\ Collected
    /\ hist[ev.prev_pid].takes = 2
    /\ hist[ev.prev_pid].nonzero = 1
    /\ ev.cpu_time = 0

\* C2: baseline-advance independence.  With hardware events enabled and
\* successful reads, after every sched_switch handled on a CPU each of the
\* three baselines of that CPU equals the counter value at that switch,
\* whatever the handler decided about the sample (duration 0, SAMPLE_RATE
\* skip).
C2_BaselinesAdvance ==
    (ev.op = "switch" /\ HW # 0) =>
        \A k \in Kinds : Baseline(k, ev.cpu) = hwc[ev.cpu][k]

\* The last invocation was a counter read that succeeded / a timestamp take.
ReadOk == ev.op = "read" /\ ~ev.failed
Took == ev.op = "take"

\* C3: counter delta arithmetic.  For a baseline p and a newly read value v,
\* the delta a read returns is v - p when v > p and 0 when v <= p; it is never
\* larger than v (no wrap-around).
C3_DeltaArithmetic ==
    (ReadOk /\ ev.prev_val # NULL) =>
        /\ ev.delta = IF ev.val > ev.prev_val THEN ev.val - ev.prev_val ELSE 0
        /\ ev.delta <= ev.val

\* C3's case: a read finds the counter below its baseline and returns 0.
C3_Witness ==
    /\ ReadOk
    /\ ev.prev_val # NULL
    /\ ev.val < ev.prev_val
    /\ ev.delta = 0

\* C4: the duration taken for a tid at time now is
\* floor((now - on_cpu_since[tid]) / 1000) when the tid has an entry and
\* now > on_cpu_since[tid], and 0 when it has none or now <= on_cpu_since[tid];
\* it never exceeds floor(now / 1000).
C4_Duration ==
    Took =>
        /\ ev.cpu_time = IF ev.prev_val # NULL /\ ev.ts > ev.prev_val
                         THEN (ev.ts - ev.prev_val) \div 1000
                         ELSE 0
        /\ ev.cpu_time <= ev.ts \div 1000

\* C4's case: a take whose clock is behind the entry's timestamp returns 0.
C4_Witness ==
    /\ Took
    /\ ev.prev_val # NULL
    /\ ev.ts < ev.prev_val
    /\ ev.cpu_time = 0

\* A step is a take of the duration of tid at time now.
TakeStep(tid, now) ==
    /\ ev'.op = "take"
    /\ ev'.prev_pid = tid
    /\ ev'.ts = now

\* C5 as stated: a take deletes on_cpu_since[tid] only when the entry exists
\* and now > on_cpu_since[tid]; in every other case it leaves the timestamp
\* table untouched.
C5_DeleteOnlyIfAdvanced ==
    [][\A tid \in Tids, now \in Times :
           TakeStep(tid, now) =>
               pid_time_map' =
                   IF Has(pid_time_map, tid) /\ now > pid_time_map[tid]
                   THEN MapDelete(pid_time_map, tid)
                   ELSE pid_time_map]_vars

\* C5 as the code has it: a take deletes on_cpu_since[tid] whenever the entry
\* exists, also when now <= on_cpu_since[tid]; it leaves the table untouched
\* only when the tid has no entry, and it never touches another tid's entry.
C5_DeleteIfPresent ==
    [][\A tid \in Tids, now \in Times :
           TakeStep(tid, now) =>
               /\ ~Has(pid_time_map', tid)
               /\ DOMAIN pid_time_map' = (DOMAIN pid_time_map) \ {tid}
               /\ \A t \in DOMAIN pid_time_map' :
                      pid_time_map'[t] = pid_time_map[t]
               /\ ~Has(pid_time_map, tid) => pid_time_map' = pid_time_map]_vars

\* C5's case: a take found an entry whose timestamp is not before now, and
\* the entry is gone afterwards while another tid's entry is still there.
C5_Witness ==
    /\ Took
    /\ ev.prev_val # NULL
    /\ ev.ts <= ev.prev_val
    /\ ~Has(pid_time_map, ev.prev_pid)
    /\ pid_time_map # EmptyMap

\* Every process entry there was keeps its four metrics, except (possibly)
\* the entry of tgid.
OthersKeepMetrics(tgid) ==
    \A p \in DOMAIN processes :
        p # tgid =>
            /\ Has(processes', p)
            /\ Metrics(processes'[p]) = Metrics(processes[p])

\* Every process entry created by the step has all four metrics 0.
NewEntriesZero ==
    \A p \in (DOMAIN processes') \ (DOMAIN processes) :
        Metrics(processes'[p]) = <<0, 0, 0, 0>>

\* The delta of counter kind at a switch on cpu that finds the counter at val:
\* the events since the baseline, 0 when the counter is not above it.
SwitchDelta(kind, cpu, val) ==
    IF val > Baseline(kind, cpu) THEN val - Baseline(kind, cpu) ELSE 0

\* The four metrics of entry m after d and the three deltas of a switch on
\* cpu, which finds the counters at hv, are added to them.
MetricsPlus(m, d, cpu, hv) ==
    <<(m.process_run_time + d) % U64,
      (m.cpu_cycles + SwitchDelta("cycles", cpu, hv.cycles)) % U64,
      (m.cpu_instr + SwitchDelta("instr", cpu, hv.instr)) % U64,
      (m.cache_miss + SwitchDelta("miss", cpu, hv.miss)) % U64>>

\* C6: when the departing thread's on-CPU duration is 0, the sched_switch
\* handler attributes nothing: no process's process_run_time, cpu_cycles,
\* cpu_instr or cache_miss changes in that switch (an entry it creates has
\* them all 0).
C6_ZeroDurationNoAttribution ==
    [][(ev'.op = "switch" /\ ev'.cpu_time = 0) =>
           /\ OthersKeepMetrics(NULL)
           /\ NewEntriesZero]_vars

\* C6's case: a thread of a process that has accumulated metrics departs in
\* a sampled switch with duration 0.
C6_Witness ==
    /\ ev.op = "switch"
    /\ ev.path = "sampled"
    /\ ev.cpu_time = 0
    /\ Has(processes, TgidOf(ev.prev_pid))
    /\ processes[TgidOf(ev.prev_pid)].process_run_time > 0

\* C7 as stated: when the departing thread's duration d is > 0, the handler
\* adds exactly d and the three counter deltas of this switch to the entry of
\* the departing thread's process, and changes no metric of any other
\* process.
C7_AlwaysAttributed ==
    [][\A c \in Cpus, t \in Tids :
           (ev'.op = "switch" /\ ev'.cpu = c /\ ev'.prev_pid = t
                /\ ev'.cpu_time > 0) =>
               /\ Has(processes', TgidOf(t))
               /\ Metrics(processes'[TgidOf(t)]) =
                      MetricsPlus(IF Has(processes, TgidOf(t))
                                  THEN processes[TgidOf(t)] ELSE ZeroMetrics,
                                  ev'.cpu_time, c, hwc'[c])
               /\ OthersKeepMetrics(TgidOf(t))]_vars

\* C7 as the code has it: when the departing thread's duration d is > 0 in a
\* switch that SAMPLE_RATE does not hold back and the departing thread's
\* process already has an entry, the handler adds exactly d and the three
\* counter deltas of this switch to that entry; in every switch with d > 0
\* no metric of any other process changes, and when the process has no entry
\* yet nothing is attributed (an entry that is created has all metrics 0).
C7_AttributedIfRegistered ==
    [][\A c \in Cpus, t \in Tids :
           (ev'.op = "switch" /\ ev'.cpu = c /\ ev'.prev_pid = t
                /\ ev'.cpu_time > 0) =>
               /\ (ev'.path = "sampled" /\ Has(processes, TgidOf(t))) =>
                      /\ Has(processes', TgidOf(t))
                      /\ Metrics(processes'[TgidOf(t)]) =
                             MetricsPlus(processes[TgidOf(t)], ev'.cpu_time,
                                         c, hwc'[c])
               /\ OthersKeepMetrics(TgidOf(t))
               /\ NewEntriesZero]_vars

\* C7's case: a thread departs with a duration > 0 in a sampled switch, and
\* its process's entry holds a duration and counter deltas.
C7_Witness ==
    /\ ev.op = "switch"
    /\ ev.path = "sampled"
    /\ ev.cpu_time > 0
    /\ Has(processes, TgidOf(ev.prev_pid))
    /\ processes[TgidOf(ev.prev_pid)].process_run_time >= ev.cpu_time
    /\ processes[TgidOf(ev.prev_pid)].cpu_cycles > 0
    /\ processes[TgidOf(ev.prev_pid)].cpu_instr > 0
    /\ processes[TgidOf(ev.prev_pid)].cpu_cycles
           # processes[TgidOf(ev.prev_pid)].cpu_instr

\* A step is a switch on cpu c in which tid t departs and a duration > 0 is
\* added to the entry of its process.
Attributes(c, t) ==
    /\ ev'.op = "switch"
    /\ ev'.cpu = c
    /\ ev'.prev_pid = t
    /\ ev'.path = "sampled"
    /\ ev'.cpu_time > 0
    /\ Has(processes, TgidOf(t))

\* The events counter kind of cpu c counted between the previous switch on c
\* and this one.
EventsSinceLastSwitch(kind, c) ==
    IF hwc'[c][kind] > hwc[c][kind] THEN hwc'[c][kind] - hwc[c][kind] ELSE 0

\* C8: every counter delta attributed at a sched_switch on CPU c equals the
\* events counted on c since the immediately preceding sched_switch on c, for
\* any SAMPLE_RATE and any number of CPUs.
C8_DeltaSinceLastSwitch ==
    [][\A c \in Cpus, t \in Tids :
           (Attributes(c, t) /\ hwc[c]["cycles"] # NULL) =>
               /\ processes'[TgidOf(t)].cpu_cycles =
                      (processes[TgidOf(t)].cpu_cycles
                           + EventsSinceLastSwitch("cycles", c)) % U64
               /\ processes'[TgidOf(t)].cpu_instr =
                      (processes[TgidOf(t)].cpu_instr
                           + EventsSinceLastSwitch("instr", c)) % U64
               /\ processes'[TgidOf(t)].cache_miss =
                      (processes[TgidOf(t)].cache_miss
                           + EventsSinceLastSwitch("miss", c)) % U64]_vars

\* C9: the duration attributed to a departing tid never exceeds
\* floor((now - t_arrive) / 1000), t_arrive being the time of the tid's most
\* recent arrival switch, for any SAMPLE_RATE.
C9_DurationWithinInterval ==
    [][\A c \in Cpus, t \in Tids :
           (Attributes(c, t) /\ hist[t].arrive # NULL) =>
               ev'.cpu_time <= (ev'.ts - hist[t].arrive) \div 1000]_vars

\* C10: missing baseline.  The first successful read of a counter on a CPU
\* (no sample recorded for it before) returns delta 0 and sets the baseline to
\* the value read.
C10_FirstReadZero ==
    [][\A k \in Kinds, c \in Cpus :
           (ev'.op = "read" /\ ~ev'.failed /\ ev'.kind = k /\ ev'.cpu = c
                /\ <<c, k>> \notin seen) =>
               /\ ev'.delta = 0
               /\ Baseline(k, c)' = ev'.val]_vars

\* C11: when a hardware counter read fails, that counter's delta is 0 and its
\* baseline is left unchanged, and the handler continues normally: the other
\* counters are still read (their baselines take the values read), the
\* departing thread's duration is still taken (its entry is consumed) and the
\* arriving thread's timestamp is still stored.
C11_ReadFailure ==
    [][\A c \in Cpus, t \in Tids, n \in Tids :
           (ev'.op = "switch" /\ ev'.cpu = c /\ ev'.prev_pid = t
                /\ ev'.next_pid = n /\ ev'.fails # {}) =>
               /\ \A k \in ev'.fails : Baseline(k, c)' = Baseline(k, c)
               /\ \A k \in Kinds \ ev'.fails : Baseline(k, c)' = hwc'[c][k]
               /\ Has(processes, TgidOf(t)) =>
                      /\ "cycles" \in ev'.fails =>
                             processes'[TgidOf(t)].cpu_cycles
                                 = processes[TgidOf(t)].cpu_cycles
                      /\ "instr" \in ev'.fails =>
                             processes'[TgidOf(t)].cpu_instr
                                 = processes[TgidOf(t)].cpu_instr
                      /\ "miss" \in ev'.fails =>
                             processes'[TgidOf(t)].cache_miss
                                 = processes[TgidOf(t)].cache_miss
               /\ ev'.cpu_time =
                      IF Has(pid_time_map, t) /\ ev'.ts > pid_time_map[t]
                      THEN (ev'.ts - pid_time_map[t]) \div 1000
                      ELSE 0
               /\ (ev'.path = "sampled" /\ ev'.cpu_time > 0
                       /\ Has(processes, TgidOf(t))) =>
                      processes'[TgidOf(t)].process_run_time =
                          (processes[TgidOf(t)].process_run_time
                               + ev'.cpu_time) % U64
               /\ ~Has(pid_time_map', t)
               /\ Has(pid_time_map', n)
               /\ pid_time_map'[n] = clock']_vars

\* C11's case: one read failed and the others did not in a switch that took
\* a duration > 0 and added it to the departing thread's process.
C11_Witness ==
    /\ ev.op = "switch"
    /\ ev.path = "sampled"
    /\ ev.fails # {}
    /\ ev.fails # Kinds
    /\ ev.cpu_time > 0
    /\ Has(processes, TgidOf(ev.prev_pid))
    /\ processes[TgidOf(ev.prev_pid)].process_run_time > 0

\* The most recent sched_switch of tid was one in which it arrived.
LastSwitchWasArrival(tid) == hist[tid].arrive # NULL /\ hist[tid].takes = 0

\* C12: per-thread state machine.  With SAMPLE_RATE = 0 (and no eviction),
\* after any sequence of sched_switch events the timestamp table has an entry
\* for a tid exactly when the tid's most recent sched_switch was as the
\* arriving thread.
C12_EntryIffOnCpu ==
    SAMPLE_RATE = 0 =>
        \A t \in Tids : Has(pid_time_map, t) <=> LastSwitchWasArrival(t)

\* C12's case: one thread has arrived and left again (no entry), another is
\* on a CPU (entry).
C12_Witness ==
    /\ SAMPLE_RATE = 0
    /\ \E t \in Tids :
           hist[t].arrive # NULL /\ hist[t].takes > 0 /\ ~Has(pid_time_map, t)
    /\ \E t \in Tids : LastSwitchWasArrival(t) /\ Has(pid_time_map, t)

\* The last invocation was the soft-IRQ probe / a page-cache probe.
IrqStep == ev'.op = "irq"
PageStep == ev'.op \in {"read_page", "write_page"}

\* Nothing but the process table may have changed.
OnlyProcesses ==
    UNCHANGED <<counter_sched_switch, pid_time_map, cpu_cycles,
                cpu_instructions, cache_miss>>

\* C13 as stated: a softirq_entry with a vector outside {2,3,4} is ignored:
\* it records nothing and changes no per-process state.
C13_OnlyNetAndBlockVectors ==
    [][(IrqStep /\ ev'.val \notin {2, 3, 4}) => processes' = processes]_vars

\* C13 as the code has it: a softirq_entry with a vector outside 0..9 is
\* ignored (it records nothing and changes no per-process state), while a
\* vector in 0..9 outside {2,3,4} is counted for the current process, if it
\* has an entry, like the vectors 2, 3 and 4.
C13_OnlyVectorsBelowTen ==
    [][\A t \in Tids :
           (IrqStep /\ ev'.prev_pid = t /\ ev'.val \notin {2, 3, 4}) =>
               /\ ev'.val \notin 0 .. 9 =>
                      processes' = processes /\ OnlyProcesses
               /\ (ev'.val \in 0 .. 9 /\ Has(processes, TgidOf(t))) =>
                      processes'[TgidOf(t)].vec_nr[ev'.val] =
                          (processes[TgidOf(t)].vec_nr[ev'.val] + 1) % U16]_vars

\* C13's case: a softirq_entry with a vector above 9 was raised while a thread
\* of a process with an entry ran, and it left no count.
C13_Witness ==
    /\ ev.op = "irq"
    /\ ev.val > 9
    /\ Has(processes, TgidOf(ev.prev_pid))
    /\ \A v \in 0 .. 9 : processes[TgidOf(ev.prev_pid)].vec_nr[v] = 0

\* The entry m with one more soft-IRQ counted for vector v.
CountVec(m, v) == [m EXCEPT !.vec_nr[v] = (@ + 1) % U16]

\* C14 as stated: a softirq_entry with vector v in {2,3,4} is recorded
\* exactly once against the current thread's process for vector v, and
\* nothing else changes.
C14_AlwaysRecorded ==
    [][\A t \in Tids :
           (IrqStep /\ ev'.prev_pid = t /\ ev'.val \in {2, 3, 4}) =>
               /\ Has(processes', TgidOf(t))
               /\ processes'[TgidOf(t)].vec_nr[ev'.val] =
                      IF Has(processes, TgidOf(t))
                      THEN (processes[TgidOf(t)].vec_nr[ev'.val] + 1) % U16
                      ELSE 1
               /\ \A p \in DOMAIN processes :
                      p # TgidOf(t) => processes'[p] = processes[p]
               /\ OnlyProcesses]_vars

\* C14 as the code has it: a softirq_entry with vector v in {2,3,4} raised
\* while a thread of a process with an entry runs is recorded exactly once
\* against that process for vector v, and nothing else changes (no other
\* vector, no other field, no other process, no counter baseline, no
\* timestamp entry); for a process without an entry nothing changes at all.
C14_RecordedIfRegistered ==
    [][\A t \in Tids :
           (IrqStep /\ ev'.prev_pid = t /\ ev'.val \in {2, 3, 4}) =>
               /\ processes' =
                      IF Has(processes, TgidOf(t))
                      THEN [processes EXCEPT
                               ![TgidOf(t)] = CountVec(@, ev'.val)]
                      ELSE processes
               /\ OnlyProcesses]_vars

\* C14's case: vector 3 was raised while a thread of a process with an entry
\* ran, another process has an entry too, and the count of vector 3 is 1.
C14_Witness ==
    /\ ev.op = "irq"
    /\ ev.val = 3
    /\ Has(processes, TgidOf(ev.prev_pid))
    /\ processes[TgidOf(ev.prev_pid)].vec_nr[3] = 1
    /\ \E p \in DOMAIN processes : p # TgidOf(ev.prev_pid)

\* C15 as stated: each mark_page_accessed exit and each
\* writeback_dirty_folio records exactly one page-cache hit for the current
\* process and modifies no counter baseline, no timestamp entry, no cgroup id
\* and no other metric.
C15_AlwaysCounted ==
    [][\A t \in Tids :
           (PageStep /\ ev'.prev_pid = t) =>
               /\ Has(processes', TgidOf(t))
               /\ processes'[TgidOf(t)].page_cache_hit =
                      IF Has(processes, TgidOf(t))
                      THEN (processes[TgidOf(t)].page_cache_hit + 1) % U64
                      ELSE 1
               /\ \A p \in DOMAIN processes :
                      p # TgidOf(t) => processes'[p] = processes[p]
               /\ OnlyProcesses]_vars

\* C15 as the code has it: each mark_page_accessed exit and each
\* writeback_dirty_folio raised while a thread of a process with an entry
\* runs adds exactly one page-cache hit to that entry and modifies nothing
\* else (no counter baseline, no timestamp entry, no cgroup id, no other
\* metric, no other process); for a process without an entry nothing changes
\* and no entry is created.
C15_CountedIfRegistered ==
    [][\A t \in Tids :
           (PageStep /\ ev'.prev_pid = t) =>
               /\ processes' =
                      IF Has(processes, TgidOf(t))
                      THEN [processes EXCEPT
                               ![TgidOf(t)].page_cache_hit = (@ + 1) % U64]
                      ELSE processes
               /\ OnlyProcesses]_vars

\* C15's case: a read-path hit follows a write-path hit of the same process,
\* which has an entry: two hits are counted.
C15_Witness ==
    /\ ev.op = "read_page"
    /\ Has(processes, TgidOf(ev.prev_pid))
    /\ processes[TgidOf(ev.prev_pid)].page_cache_hit = 2
    /\ processes[TgidOf(ev.prev_pid)].cgroup_id = CgroupOf(ev.prev_pid)

\* The duration a take for tid at time now is to return.
ExpectedDuration(tid, now) ==
    IF Has(pid_time_map, tid) /\ now > pid_time_map[tid]
    THEN (now - pid_time_map[tid]) \div 1000
    ELSE 0

\* C16: with HW = 0 no hardware counter is read and no baseline slot is ever
\* modified, and every recorded cpu_cycles, cpu_instr and cache_miss stays 0
\* after any sequence of events, while on-CPU durations are still taken and
\* attributed.
C16_NoHardwareEvents ==
    [][HW = 0 =>
           /\ UNCHANGED <<cpu_cycles, cpu_instructions, cache_miss, seen>>
           /\ \A p \in DOMAIN processes' :
                  /\ processes'[p].cpu_cycles = 0
                  /\ processes'[p].cpu_instr = 0
                  /\ processes'[p].cache_miss = 0
           /\ \A t \in Tids :
                  (ev'.op = "switch" /\ ev'.prev_pid = t
                       /\ ev'.path # "skip") =>
                      /\ ev'.cpu_time = ExpectedDuration(t, ev'.ts)
                      /\ (ev'.path = "sampled" /\ Has(processes, TgidOf(t))) =>
                             processes'[TgidOf(t)].process_run_time =
                                 (processes[TgidOf(t)].process_run_time
                                      + ev'.cpu_time) % U64]_vars

\* C16's case: with HW = 0 a duration > 0 was added to a process while the
\* counters of the CPU had moved away from its (untouched) baselines.
C16_Witness ==
    /\ HW = 0
    /\ ev.op = "switch"
    /\ ev.path = "sampled"
    /\ ev.cpu_time > 0
    /\ Has(processes, TgidOf(ev.prev_pid))
    /\ processes[TgidOf(ev.prev_pid)].process_run_time > 0
    /\ processes[TgidOf(ev.prev_pid)].cpu_cycles = 0
    /\ hwc[ev.cpu]["cycles"] > 0
    /\ Baseline("cycles", ev.cpu) = 0

\* C17: with SAMPLE_RATE = N > 0 the timestamp table is updated on every
\* switch, skipped ones included: after any sched_switch the departing tid's
\* entry has been consumed and the arriving tid's entry holds that switch's
\* timestamp.
C17_TableUpdatedOnEverySwitch ==
    [][\A t \in Tids, n \in Tids :
           (SAMPLE_RATE > 0 /\ ev'.op = "switch" /\ ev'.prev_pid = t
                /\ ev'.next_pid = n) =>
               /\ ~Has(pid_time_map', t)
               /\ Has(pid_time_map', n)
               /\ pid_time_map'[n] = ev'.ts]_vars

\* C18: with SAMPLE_RATE = N > 0 the first switch is sampled and exactly N
\* switches are skipped between two consecutive sampled (attributing)
\* switches; with SAMPLE_RATE = 0 every switch is sampled.
C18_EveryNthSampled ==
    [][ev'.op = "switch" =>
           IF SAMPLE_RATE = 0 THEN ev'.path = "sampled"
           ELSE (ev'.path = "sampled") <=>
                    (ev.op # "switch" \/ ev.since = SAMPLE_RATE)]_vars

\* C18's case: the second sampled switch, after SAMPLE_RATE >= 2 switches
\* that were not sampled.
C18_Witness ==
    /\ SAMPLE_RATE >= 2
    /\ ev.op = "switch"
    /\ ev.path = "sampled"
    /\ nevents = SAMPLE_RATE + 2

\* C19: the cgroup id recorded for a process is the cgroup of a thread of that
\* process (the departing thread of the switch that captured it): a process
\* entry never holds the cgroup id of a thread of another process, for any
\* SAMPLE_RATE.
C19_CgroupOfOwnThread ==
    \A p \in DOMAIN processes :
        \E t \in Tids : TgidOf(t) = p /\ processes[p].cgroup_id = CgroupOf(t)

\* C20: if the sched_switch handlers of two CPUs race on the timestamp entry
\* of the same tid, at most one of them obtains a non-zero duration for the
\* same stored timestamp (at worst one gets 0): the interval is never counted
\* twice.
C20_RaceCountsOnce ==
    \A t \in Tids : hist[t].nonzero <= 1

\* C21: per-CPU baseline ownership.  A sched_switch handled on CPU c writes
\* only the baseline slots indexed by c (the cycles, instruction and
\* cache-miss baselines of every other CPU are unchanged), and the deltas it
\* attributes are computed from the slots of c alone.
C21_OtherCpusUntouched ==
    [][\A c \in Cpus :
           (ev'.op = "switch" /\ ev'.cpu = c) =>
               /\ \A c2 \in Cpus \ {c}, k \in Kinds :
                      Baseline(k, c2)' = Baseline(k, c2)
               /\ \A t \in Tids :
                      Attributes(c, t) =>
                          Metrics(processes'[TgidOf(t)]) =
                              MetricsPlus(processes[TgidOf(t)], ev'.cpu_time,
                                          c, hwc'[c])]_vars

\* C21's case: a switch on CPU 1 has just stored baselines in CPU 1's slots
\* while CPU 0's slots hold other, non-zero baselines stored earlier.
C21_Witness ==
    /\ ev.op = "switch"
    /\ ev.cpu = 1
    /\ ev.path # "skip"
    /\ \A k \in Kinds : Baseline(k, 1) = hwc[1][k]
    /\ hwc[0]["cycles"] # NULL
    /\ Baseline("cycles", 0) = hwc[0]["cycles"]
    /\ Baseline("cycles", 0) > 0
    /\ Baseline("cycles", 0) # Baseline("cycles", 1)

\* C22: the timestamp table never holds more than its max_entries (MAP_SIZE,
\* 32,768 in the program) after any sequence of marks and takes: a mark of a
\* new tid that finds the table full does not fail, it stores the tid's
\* timestamp and evicts the least recently used entry, leaving the others;
\* and a tid whose entry was evicted gets duration 0 at its next departure.
C22_LruEviction ==
    [][/\ Cardinality(DOMAIN pid_time_map') <= max_entries
       /\ max_entries <= MAP_SIZE
       /\ \A t \in Tids, ts \in Times :
              (ev'.op = "mark" /\ ev'.next_pid = t /\ ev'.ts = ts) =>
                  /\ Has(pid_time_map', t)
                  /\ pid_time_map'[t] = ts
                  /\ (~Has(pid_time_map, t)
                          /\ Cardinality(DOMAIN pid_time_map) = max_entries) =>
                         pid_time_map' =
                             HashUpdate(MapDelete(pid_time_map, Head(lru)),
                                        t, ts, BPF_ANY)
       /\ \A t \in Tids :
              (ev'.op = "take" /\ ev'.prev_pid = t
                   /\ ~Has(pid_time_map, t)) =>
                  /\ ev'.cpu_time = 0
                  /\ pid_time_map' = pid_time_map]_vars

\* C22's case: a tid was marked, its entry was evicted by the marks of other
\* tids that filled the table, and its departure (late enough for a duration
\* above 0 had the entry survived) got 0.
C22_Witness ==
    /\ ev.op = "take"
    /\ ev.prev_val = NULL
    /\ ev.cpu_time = 0
    /\ hist[ev.prev_pid].arrive # NULL
    /\ hist[ev.prev_pid].takes = 1
    /\ ev.ts - hist[ev.prev_pid].arrive >= 1000
    /\ Cardinality(DOMAIN pid_time_map) = max_entries

\* The buffer has no room for one more record.
RingFull == ring_buffer_available_bytes(rb) + sizeof_event > ring_size

\* A record as the consumer decodes it: submitted, of one of the four
\* variants, carrying the CPU that emitted it, and not one that was dropped.
ValidRecord(r, ring) ==
    /\ ~r.busy
    /\ r.variant \in Variants
    /\ r.cpu_id = r.cpu
    /\ r.seq \in 1 .. ring.seq[r.cpu]
    /\ <<r.cpu, r.seq>> \notin ring.dropped

\* C23: back-pressure.  An emit that finds the ring buffer full does not
\* block (the probe is done with it at once), drops the event and leaves
\* every record written before unchanged; an emit that finds room (also after
\* a drop, once space is freed) appends its record and submits it with the
\* fields it was given, and every record the consumer reads is valid.
C23_BackPressure ==
    [][/\ \A c \in Cpus :
              (ev'.cpu = c /\ ev'.op \in {"reserve", "drop"}) =>
                  /\ RingFull <=> ev'.op = "drop"
                  /\ ev'.op = "drop" =>
                         /\ rb'.slots = rb.slots
                         /\ rb'.consumed = rb.consumed
                         /\ rb'.emitting = rb.emitting
                         /\ <<c, rb'.seq[c]>> \in rb'.dropped
                  /\ ev'.op = "reserve" =>
                         /\ SubSeq(rb'.slots, 1, Len(rb.slots)) = rb.slots
                         /\ Len(rb'.slots) = Len(rb.slots) + 1
       /\ \A c \in Cpus :
              (ev'.cpu = c /\ ev'.op = "submit") =>
                  /\ Len(rb'.slots) = Len(rb.slots)
                  /\ \A i \in DOMAIN rb.slots :
                         IF rb.slots[i].cpu = c /\ rb.slots[i].busy
                         THEN /\ ValidRecord(rb'.slots[i], rb')
                              /\ rb'.slots[i].variant = rb.emitting[c].variant
                              /\ rb'.slots[i].seq = rb.emitting[c].seq
                         ELSE rb'.slots[i] = rb.slots[i]
       /\ \A i \in DOMAIN rb'.consumed : ValidRecord(rb'.consumed[i], rb')
      ]_vars

\* C23's case: an emit on a CPU was dropped because the buffer was full, the
\* consumer freed space, and a later emit of the same CPU has just submitted
\* a valid record.
C23_Witness ==
    /\ ev.op = "submit"
    /\ rb.consumed # <<>>
    /\ \E i \in DOMAIN rb.slots :
           /\ rb.slots[i].cpu = ev.cpu
           /\ rb.slots[i].seq = ev.val
           /\ ValidRecord(rb.slots[i], rb)
           /\ <<ev.cpu, ev.val - 1>> \in rb.dropped

\* C24: wake-up policy.  An emit is submitted with FORCE_WAKEUP exactly when
\* the ring buffer holds at least 1000 x sizeof(event) (here WakeBatch x
\* sizeof(event)) unconsumed bytes at submission, and with NO_WAKEUP
\* otherwise; as long as nothing has been consumed or dropped, the record that
\* brings the buffer to the threshold and every later one has FORCE_WAKEUP,
\* and an earlier record submitted before any later one was reserved has
\* NO_WAKEUP.
C24_WakeupPolicy ==
    [][\A c \in Cpus :
           (ev'.cpu = c /\ ev'.op = "submit") =>
               \A i \in DOMAIN rb.slots :
                   (rb.slots[i].cpu = c /\ rb.slots[i].busy) =>
                       /\ rb'.slots[i].avail = Len(rb.slots) * sizeof_event
                       /\ rb'.slots[i].wake \in {"FORCE_WAKEUP", "NO_WAKEUP"}
                       /\ rb'.slots[i].wake = "FORCE_WAKEUP" <=>
                              Len(rb.slots) * sizeof_event
                                  >= WakeBatch * sizeof_event
                       /\ (rb.consumed = <<>> /\ rb.dropped = {}) =>
                              /\ i >= WakeBatch =>
                                     rb'.slots[i].wake = "FORCE_WAKEUP"
                              /\ (i < WakeBatch /\ i = Len(rb.slots)) =>
                                     rb'.slots[i].wake = "NO_WAKEUP"]_vars

\* C24's case: nothing was consumed, the record that brought the buffer to
\* the threshold was submitted with FORCE_WAKEUP, and the records before it
\* with NO_WAKEUP.
C24_Witness ==
    /\ ev.op = "submit"
    /\ rb.consumed = <<>>
    /\ Len(rb.slots) = WakeBatch
    /\ rb.slots[WakeBatch].wake = "FORCE_WAKEUP"
    /\ \A i \in 1 .. WakeBatch - 1 : rb.slots[i].wake = "NO_WAKEUP"

\* C25: per-CPU ordering.  The records of one CPU reach the single consumer
\* in the order the CPU emitted (reserved and submitted) them, whatever the
\* interleaving with the producers on the other CPUs and with the consumer.
C25_PerCpuOrder ==
    \A i, j \in DOMAIN rb.consumed :
        (i < j /\ rb.consumed[i].cpu = rb.consumed[j].cpu) =>
            rb.consumed[i].seq < rb.consumed[j].seq

\* C25's case: the consumer has read two records of one CPU and, between
\* them, a record of another CPU that was reserved while the first CPU's
\* emit was under way.
C25_Witness ==
    /\ Len(rb.consumed) >= 3
    /\ rb.consumed[1].cpu = rb.consumed[3].cpu
    /\ rb.consumed[2].cpu # rb.consumed[1].cpu
    /\ rb.consumed[2].avail > rb.consumed[1].avail
    /\ rb.consumed[1].avail = 2 * sizeof_event

\* C26: register_new_process_if_not_exist(tgid) is idempotent and
\* non-destructive.  After it returns the process table has an entry for
\* tgid; if there was none, the new entry has pid = tgid, the cgroup id of the
\* current task and every metric 0; if there was one, none of its fields is
\* changed; and no other entry and nothing else is changed.
C26_RegisterIdempotent ==
    [][\A tgid \in TestIds :
           (ev'.op = "test_register" /\ ev'.prev_tgid = tgid) =>
               /\ DOMAIN processes' = DOMAIN processes \cup {tgid}
               /\ \A p \in DOMAIN processes : processes'[p] = processes[p]
               /\ ~Has(processes, tgid) =>
                      /\ processes'[tgid].pid = tgid
                      /\ processes'[tgid].cgroup_id = CgroupOf(cur[ev'.cpu])
                      /\ [processes'[tgid] EXCEPT !.pid = 0, !.cgroup_id = 0,
                                                   !.comm = 0] = ZeroMetrics
               /\ processes' =
                      register_new_process_if_not_exist(processes', tgid,
                                                        cur[ev'.cpu], TEST)
               /\ OnlyProcesses]_vars

\* C26's case: the process registered last had an entry already, with an
\* accumulated duration, and still has it.
C26_Witness ==
    /\ ev.op = "test_register"
    /\ Has(processes, ev.prev_tgid)
    /\ processes[ev.prev_tgid].process_run_time > 0

\* C27: after any sampled sched_switch(prev_pid, next_pid, prev_tgid,
\* next_tgid) the process table has an entry for prev_tgid and the timestamp
\* table has an entry for next_pid; and a switch whose prev_pid never arrived
\* measures no duration and leaves the metrics of prev_tgid as they were, 0
\* for an entry it creates, so that repeating the switch keeps them at 0.
C27_SampledSwitchRegisters ==
    [][\A p \in TestIds, n \in TestIds :
           (ev'.op = "test_switch" /\ ev'.prev_pid = p /\ ev'.next_pid = n
                /\ ev'.path = "sampled") =>
               /\ Has(processes', ev'.prev_tgid)
               /\ Has(pid_time_map', n)
               /\ hist[p].arrive = NULL =>
                      /\ ev'.cpu_time = 0
                      /\ Metrics(processes'[ev'.prev_tgid]) =
                             IF Has(processes, ev'.prev_tgid)
                             THEN Metrics(processes[ev'.prev_tgid])
                             ELSE <<0, 0, 0, 0>>]_vars

\* C27's case: the same sampled switch ran twice, its prev_pid never arrived,
\* the counters of the CPU moved between the two runs, and the entry of
\* prev_tgid has all metrics 0.
C27_Witness ==
    /\ ev.op = "test_switch"
    /\ SAMPLE_RATE = 0
    /\ nevents = 2
    /\ ev.prev_pid # ev.next_pid
    /\ hist[ev.prev_pid].arrive = NULL
    /\ hist[ev.prev_pid].takes = 2
    /\ DOMAIN pid_time_map = {ev.next_pid}
    /\ DOMAIN processes = {ev.prev_tgid}
    /\ Metrics(processes[ev.prev_tgid]) = <<0, 0, 0, 0>>
    /\ \A k \in Kinds : hwc[ev.cpu][k] > 0
    /\ ev.ts > 0

\* C28: a page-cache or soft-IRQ probe fired by a process that has no entry
\* in the process table changes no state at all and creates no entry.
C28_UnregisteredProbeNoEffect ==
    [][\A c \in Cpus :
           ((IrqStep \/ PageStep) /\ ev'.cpu = c
                /\ ~Has(processes, TgidOf(cur[c]))) =>
               /\ processes' = processes
               /\ OnlyProcesses]_vars

\* C28's case: a write to the page cache by a thread whose process has no
\* entry, while another process has one.
C28_Witness ==
    /\ ev.op = "write_page"
    /\ ev.prev_pid = cur[ev.cpu]
    /\ ~Has(processes, TgidOf(ev.prev_pid))
    /\ processes # EmptyMap

\* C29: in one sched_switch handling that stores on_cpu_since[arriving_tid],
\* the timestamp stored is the value of the clock that was read at the start
\* of the handler and used for the departing thread's duration.
C29_StampIsStartTime ==
    [][\A c \in Cpus, n \in Tids :
           (ev'.op = "switch" /\ ev'.cpu = c /\ ev'.next_pid = n
                /\ ev'.path # "skip") =>
               /\ Has(pid_time_map', n)
               /\ pid_time_map'[n] = ev'.ts]_vars

\* C30: in a sampled switch that measures a duration d > 0, d and the counter
\* deltas are accumulated for the departing process if and only if its entry
\* existed before the switch; when it did not, the entry the switch creates
\* has all metrics 0 although the departing thread's timestamp entry and the
\* CPU's baselines were consumed.  With SAMPLE_RATE = 0 an entry is only ever
\* created by a switch in which a thread of its process departs, so the first
\* departing switch of a process accumulates nothing.
C30_AccumulatedIffRegistered ==
    [][/\ \A c \in Cpus, t \in Tids :
              (ev'.op = "switch" /\ ev'.cpu = c /\ ev'.prev_pid = t
                   /\ ev'.path = "sampled" /\ ev'.cpu_time > 0) =>
                  /\ Has(processes', TgidOf(t))
                  /\ Metrics(processes'[TgidOf(t)]) =
                         IF Has(processes, TgidOf(t))
                         THEN MetricsPlus(processes[TgidOf(t)], ev'.cpu_time,
                                          c, hwc'[c])
                         ELSE <<0, 0, 0, 0>>
                  /\ ~Has(pid_time_map', t)
                  /\ \A k \in Kinds : Baseline(k, c)' = hwc'[c][k]
       /\ SAMPLE_RATE = 0 =>
              \A p \in (DOMAIN processes') \ (DOMAIN processes) :
                  /\ ev'.op = "switch"
                  /\ TgidOf(ev'.prev_pid) = p]_vars

\* C30's case: with SAMPLE_RATE = 0 a thread has just departed after a
\* measured interval with counter events, its process had no entry, and the
\* entry created for it holds nothing of the interval.
C30_Witness ==
    /\ SAMPLE_RATE = 0
    /\ ev.op = "switch"
    /\ ev.path = "sampled"
    /\ ev.cpu_time > 0
    /\ Has(processes, TgidOf(ev.prev_pid))
    /\ Metrics(processes[TgidOf(ev.prev_pid)]) = <<0, 0, 0, 0>>
    /\ ~Has(pid_time_map, ev.prev_pid)
    /\ Baseline("cycles", ev.cpu) = hwc[ev.cpu]["cycles"]
    /\ Baseline("cycles", ev.cpu) > 0

\* The sum of field f of the bufs of the handlers in S.
RECURSIVE Contributed(_, _, _)
Contributed(S, tgid, f) ==
    IF S = {} THEN 0
    ELSE LET c == CHOOSE x \in S : TRUE
         IN (IF running[c].pc = "done" /\ running[c].tgid = tgid
             THEN running[c].buf[f] ELSE 0)
            + Contributed(S \ {c}, tgid, f)

\* C31: when the handlers of two CPUs accumulate for the same process at the
\* same time, no update is lost: once both are done, each of the process's
\* four totals is the previous total (0) plus the contributions of both.
C31_NoLostUpdate ==
    (\A c \in Cpus : running[c].pc \in {"idle", "done"}) =>
        \A p \in Tgids, i \in DOMAIN AccFields :
            processes[p][AccFields[i]]
                = Contributed(Cpus, p, AccFields[i]) % U64

\* C32: the global sampling counter counter_sched_switch stays within
\* 0 .. SAMPLE_RATE in every reachable state, also when the handlers of
\* several CPUs test, decrement and reset it at the same time.
C32_CounterInRange == counter_sched_switch \in 0 .. SAMPLE_RATE

\* C33: each process's accumulated process_run_time, cpu_cycles, cpu_instr,
\* cache_miss and page_cache_hit never decrease, whatever the handlers do, as
\* long as its entry stays in the table (and no counter overflows).
C33_TotalsNeverDecrease ==
    [][\A p \in DOMAIN processes :
           /\ Has(processes', p)
           /\ \A i \in DOMAIN AccFields :
                  processes'[p][AccFields[i]] >= processes[p][AccFields[i]]
           /\ processes'[p].page_cache_hit >= processes[p].page_cache_hit
      ]_vars

\* C34: a sched_switch on a CPU whose id is >= NUM_CPUS produces delta 0 for
\* all three counters and modifies no baseline slot (so a process's counter
\* totals do not move); unless SAMPLE_RATE holds the switch back, the
\* departing thread's duration is still taken and the arriving thread's
\* timestamp still stored.
C34_CpuBeyondArrays ==
    [][\A c \in Cpus :
           (ev'.op = "switch" /\ ev'.cpu = c /\ CpuIdOf(c) >= NUM_CPUS) =>
               /\ ev'.delta = 0
               /\ UNCHANGED <<cpu_cycles, cpu_instructions, cache_miss>>
               /\ \A p \in DOMAIN processes :
                      /\ Has(processes', p)
                      /\ processes'[p].cpu_cycles = processes[p].cpu_cycles
                      /\ processes'[p].cpu_instr = processes[p].cpu_instr
                      /\ processes'[p].cache_miss = processes[p].cache_miss
               /\ ev'.path # "skip" =>
                      /\ ev'.cpu_time = ExpectedDuration(cur[c], ev'.ts)
                      /\ ~Has(pid_time_map', cur[c])
                      /\ Has(pid_time_map', ev'.next_pid)
                      /\ pid_time_map'[ev'.next_pid] = ev'.ts
               /\ (ev'.path = "sampled" /\ ev'.cpu_time > 0
                       /\ Has(processes, TgidOf(cur[c]))) =>
                      processes'[TgidOf(cur[c])].process_run_time =
                          (processes[TgidOf(cur[c])].process_run_time
                               + ev'.cpu_time) % U64]_vars

\* C34's case: a thread has just departed on a CPU beyond the arrays, after
\* a measured interval and with successful perf reads of counters above 0,
\* and its process got the duration and no counter events.
C34_Witness ==
    /\ ev.op = "switch"
    /\ ev.val >= NUM_CPUS
    /\ ev.fails = {}
    /\ ev.path = "sampled"
    /\ ev.cpu_time > 0
    /\ \A k \in Kinds : hwc[ev.cpu][k] > 0
    /\ Has(processes, TgidOf(ev.prev_pid))
    /\ processes[TgidOf(ev.prev_pid)].process_run_time > 0
    /\ processes[TgidOf(ev.prev_pid)].cpu_cycles = 0
    /\ Has(pid_time_map, ev.next_pid)

\* C35: the soft-IRQ count array vec_nr (10 slots) is only ever indexed with
\* vec < 10: it keeps its 10 slots, and a softirq_entry with vec >= 10
\* changes no state, whatever the vector.
C35_VectorIndexInRange ==
    [][/\ \A p \in DOMAIN processes' :
              DOMAIN processes'[p].vec_nr = 0 .. (IRQ_MAX_LEN - 1)
       /\ (IrqStep /\ ev'.val >= IRQ_MAX_LEN) =>
              processes' = processes /\ OnlyProcesses]_vars

\* C35's case: a softirq_entry with the largest vector was raised while a
\* thread of a process with counted soft-IRQs ran.
C35_Witness ==
    /\ ev.op = "irq"
    /\ ev.val = BigVec
    /\ Has(processes, TgidOf(ev.prev_pid))
    /\ \E v \in 0 .. 9 : processes[TgidOf(ev.prev_pid)].vec_nr[v] > 0

\* C36: the per-vector soft-IRQ count of a registered process is a 16-bit
\* counter: after k recorded soft-IRQ entries for a vector its value is
\* k mod 65536, and the other vectors' counts stay 0.
C36_CountModulo16Bits ==
    /\ Has(processes, TgidOf(IdleTid))
    /\ \A v \in 0 .. (IRQ_MAX_LEN - 1) :
           processes[TgidOf(IdleTid)].vec_nr[v] =
               IF v = CountedVec THEN nevents % 65536 ELSE 0

\* C36's case: the 65,536th soft-IRQ entry has been recorded and the count
\* is back at 0.
C36_Witness ==
    /\ ev.op = "irq"
    /\ nevents = 65536
    /\ processes[TgidOf(IdleTid)].vec_nr[CountedVec] = 0

\* C37: in the libbpf kprobe program, after every processed switch the
\* pid_time entry of the arriving thread equals that switch's timestamp, also
\* when an entry for the thread was there before.
C37_MarkOverwrites ==
    (ev.op = "finish_task_switch" /\ ev.path = "sampled") =>
        /\ Has(pid_time_map, ev.next_pid)
        /\ pid_time_map[ev.next_pid] = ev.ts

\* C38: in the legacy perf-event program, a switch whose time is not after
\* the stored last_time adds duration 0, a counter read below the stored
\* baseline adds delta 0, and no duration or delta is a wrapped difference
\* (every delta is at most the value read).
C38_NoWrappedDifference ==
    ev.op = "legacy_switch" =>
        /\ (ev.prev_val # NULL /\ ev.ts <= ev.prev_val) => ev.cpu_time = 0
        /\ ev.kind = "below" => ev.delta = 0
        /\ ev.delta <= ev.val
        /\ ev.cpu_time <= ev.ts \div 1000

\* C39 as stated: bpf_map_lookup_or_try_init returns null only when the
\* insert has failed for another reason than "already exists".
C39_NullOnlyOnFailedInsert ==
    (ev.op = "lookup_or_try_init" /\ ev.val = NULL) =>
        /\ ev.prev_val # NULL
        /\ ev.prev_val # 0
        /\ ev.prev_val # 0 - EEXIST

\* C39, amended: a call that finds the key returns the stored value and
\* leaves the map alone; a call that does not find it inserts init unless
\* the key has been inserted meanwhile, and returns what the map stores for
\* the key at its final lookup; no step of a call changes the value of a key
\* that is in the map; and the call returns null only when the insert has
\* failed for another reason than "already exists" or the key is not in the
\* map at the final lookup (it was deleted since the insert).
C39_LookupOrTryInit ==
    [][/\ ev'.op # "delete" =>
              \A k \in DOMAIN pid_time_map :
                  Has(pid_time_map', k) /\ pid_time_map'[k] = pid_time_map[k]
       /\ (ev'.op = "lookup_or_try_init" /\ ev'.path = "found") =>
              /\ ev'.val = pid_time_map[ev'.next_pid]
              /\ pid_time_map' = pid_time_map
       /\ (ev'.op = "try_init" /\ ev'.prev_val = 0) =>
              /\ ~Has(pid_time_map, ev'.next_pid)
              /\ pid_time_map'[ev'.next_pid] = running[ev'.cpu].tmp
       /\ (ev'.op = "lookup_or_try_init" /\ ev'.path = "looked_up") =>
              /\ ev'.prev_val \in {0, 0 - EEXIST}
              /\ ev'.val = IF Has(pid_time_map, ev'.next_pid)
                           THEN pid_time_map[ev'.next_pid] ELSE NULL
       /\ (ev'.op = "lookup_or_try_init" /\ ev'.path = "failed") =>
              /\ ev'.val = NULL
              /\ ev'.prev_val \notin {0, 0 - EEXIST}
              /\ pid_time_map' = pid_time_map]_vars

\* C39's case: a call whose insert failed with "already exists", because the
\* handler of the other CPU inserted the key first, has returned the value
\* the other handler stored, not its own init.
C39_Witness ==
    /\ ev.op = "lookup_or_try_init"
    /\ ev.path = "looked_up"
    /\ ev.prev_val = 0 - EEXIST
    /\ ev.val # NULL
    /\ ev.val # ev.delta
    /\ pid_time_map[ev.next_pid] = ev.val

====
